---- MODULE Spec2Model ----
(***************************************************************************)
(* MetaSim event engine and simulation driver (RTSIM).                     *)
(*                                                                         *)
(* The model follows Simulation (simul.cpp / simul.hpp), Event             *)
(* (event.hpp), RandomGen and RandomVar (randomvar.cpp), SchedInstr        *)
(* (schedinstr.cpp) and the factory of PeriodicTask (rttask.cpp).          *)
(* Event::post, drop, process, action and the comparison of the queue are  *)
(* defined in event.cpp, the entity registry in entity.cpp, the statistics *)
(* in basestat.cpp, the task and the kernel in task.cpp and kernel.cpp;    *)
(* they are modelled here from the documentation of the engine.            *)
(***************************************************************************)
EXTENDS Integers, Sequences, FiniteSets, TLC

(***************************************************************************)
(* Bounds of the model.                                                    *)
(***************************************************************************)
\* largest tick a client may post an event at
MaxTime == 1
\* largest value of the insertion counter: caps the number of successful posts
MaxOrder == 2
\* largest number of calls the client makes to the run driver
MaxCalls == 3
\* largest number of calls the client makes to an instruction whose kernel
\* schedules it again
MaxSteps == 5
\* largest number of samples the client takes from a generator it has seeded
MaxSamples == 5
\* largest number of strings the client passes to a factory
MaxPar == 7
\* largest number of random variables the client constructs
MaxObjects == 2

(***************************************************************************)
(* Program constants.                                                      *)
(***************************************************************************)
DEFAULT_PRIORITY == 8
IMMEDIATE_PRIORITY == 0

\* RandomGen::A, M, Q, R
A == 16807
M == 2147483647
Q == 127773
R == 2836

\* The event objects of the simulated system: A is a member of a client
\* object, B is allocated with new.
Events == {"A", "B"}

\* The events the client may hand over to the engine (post them disposable).
Dynamic == {"B"}

Ticks == 0..MaxTime

\* The generators: the standard one (RandomVar::_stdgen) and one the client
\* constructs.
Gens == {"std", "own"}

\* RandomVar::_stdgen(1)
StdSeed == 1

\* The entity objects of the simulated system.
Entities == {"E1", "E2"}

\* an entity that overrides neither newRun() nor endRun()
NoHook == [newRun |-> [kind |-> "none", target |-> "A", at |-> 0],
           endRun |-> [kind |-> "none", target |-> "A"]]

\* the newRun() / endRun() overrides of each entity: E1 posts A for time 0
\* at the start of each run, E2 drops A at the end of each run
hookOf ==
    [en \in Entities |->
        IF en = "E1" THEN [NoHook EXCEPT !.newRun.kind = "post"]
        ELSE [NoHook EXCEPT !.endRun.kind = "drop"]]

\* The simulated systems: the doit() override and the constructor priority of
\* each event.  Either two plain events of default priority, or a periodic
\* event A of immediate priority, whose handler draws one number from the
\* standard generator (a UniformVar), and an event B of default priority
\* whose handler posts A at the current time.
Systems ==
    { [doit |-> [e \in Events |->
                    [kind |-> "none", target |-> e, delta |-> 0, draws |-> 0]],
       prio |-> [e \in Events |-> DEFAULT_PRIORITY]],
      [doit |-> [e \in Events |->
                    IF e = "A"
                    THEN [kind |-> "repost", target |-> "A", delta |-> 1, draws |-> 1]
                    ELSE [kind |-> "post", target |-> "A", delta |-> 0, draws |-> 0]],
       prio |-> [e \in Events |-> IF e = "A" THEN IMMEDIATE_PRIORITY
                                  ELSE DEFAULT_PRIORITY]] }

VARIABLES
    time,           \* Event::_time
    lastTime,       \* Event::_lastTime
    priority,       \* Event::_priority
    stdPriority,    \* Event::_std_priority
    order,          \* Event::_order
    isInQueue,      \* Event::_isInQueue
    disposable,     \* Event::_disposable
    destroyed,      \* number of times the object has been deleted
    doitOf,         \* the doit() override of each event object
    eventQueue,     \* Event::_eventQueue
    counter,        \* Event::counter
    globTime,       \* Simulation::globTime
    end,            \* Simulation::end
    log,            \* record of the firings, as a trace probe sees them
    exc,            \* the exception the last call ended with, "none" if it returned
    ret,            \* the value the last call returned, -1 if it returns none
    lastOp,         \* the last call the client made
    gen,            \* RandomGen::_seed, _xn of each generator; "std" is RandomVar::_stdgen
    out,            \* the numbers each generator has returned since it was seeded
    entities,       \* the registry of entities, in registration order
    numRuns,        \* Simulation::numRuns
    actRuns,        \* Simulation::actRuns
    calls,          \* the hook and statistics calls made by the last call of run
    nCalls,         \* number of calls the client has made to the run driver
    args,           \* the arguments of the last call to the run driver
    probes,         \* Event::_stats, _particles, _traces of each event
    kernel,         \* the dynamic type of the kernel of the task of the instruction
    pstdgen,        \* RandomVar::_pstdgen
    objects         \* the objects the factories and the client have constructed

vars == << time, lastTime, priority, stdPriority, order, isInQueue, disposable, destroyed,
           doitOf, eventQueue, counter, globTime, end, log, exc, ret, lastOp,
           gen, out, entities, numRuns, actRuns, calls, nCalls, args,
           probes, kernel, pstdgen, objects >>

(***************************************************************************)
(* The program state as one record, so that the operations compose.        *)
(***************************************************************************)
St == [ time |-> time, lastTime |-> lastTime, priority |-> priority,
        order |-> order, isInQueue |-> isInQueue, disposable |-> disposable,
        destroyed |-> destroyed, eventQueue |-> eventQueue, counter |-> counter,
        globTime |-> globTime, end |-> end, log |-> log, exc |-> "none",
        ret |-> -1, gen |-> gen, numRuns |-> numRuns, actRuns |-> actRuns,
        calls |-> << >> ]

\* F applied to the value of v: the value is computed once, however often F
\* uses it
Bind(v, F(_)) == CHOOSE r \in { F(x) : x \in {v} } : TRUE

\* Event::Cmp : (time, priority, order) ascending
Cmp(s, e1, e2) ==
    \/ s.time[e1] < s.time[e2]
    \/ /\ s.time[e1] = s.time[e2]
       /\ \/ s.priority[e1] < s.priority[e2]
          \/ /\ s.priority[e1] = s.priority[e2]
             /\ s.order[e1] < s.order[e2]

\* priority_list::insert : e goes before the first element it precedes
insert(s, e) ==
    LET q == s.eventQueue
        before == { i \in 1..Len(q) : ~ Cmp(s, e, q[i]) }
        k == IF before = {} THEN 0
             ELSE CHOOSE i \in before : \A j \in before : j <= i
    IN  SubSeq(q, 1, k) \o << e >> \o SubSeq(q, k + 1, Len(q))

\* priority_list::erase
erase(q, e) == SelectSeq(q, LAMBDA x : x # e)

\* getFirst taking the wrong end of the list
getFirst_back(s) ==
    IF s.eventQueue = << >> THEN "NULL" ELSE s.eventQueue[Len(s.eventQueue)]

\* Event::getFirst
getFirst(s) == IF s.eventQueue = << >> THEN "NULL" ELSE Head(s.eventQueue)

\* Simulation::getTime
getTime(s) == s.globTime

\* Simulation::setTime
setTime(s, t) == [s EXCEPT !.globTime = t]

\* getLastTime returning the time field, which a re-post overwrites
getLastTime_time(s, e) == s.time[e]

\* Event::getLastTime
getLastTime(s, e) == s.lastTime[e]

\* Event::isDisposable
isDisposable(s, e) == s.disposable[e]

\* post taking a new order before it checks its arguments
post_count_first(s, e, myTime, disp) ==
    LET c == [s EXCEPT !.counter = @ + 1]
    IN  IF myTime < getTime(s) THEN [c EXCEPT !.exc = "PostInPast"]
        ELSE IF s.isInQueue[e] THEN [c EXCEPT !.exc = "QueueDuplicate"]
        ELSE LET s1 == [c EXCEPT !.order[e] = c.counter, !.time[e] = myTime,
                                 !.disposable[e] = disp]
             IN  [s1 EXCEPT !.eventQueue = insert(s1, e), !.isInQueue[e] = TRUE]

\* post without the test of the time
post_any_time(s, e, myTime, disp) ==
    IF s.isInQueue[e] THEN [s EXCEPT !.exc = "QueueDuplicate"]
    ELSE LET s1 == [s EXCEPT !.counter = @ + 1,
                             !.order[e] = s.counter + 1,
                             !.time[e] = myTime,
                             !.disposable[e] = disp]
         IN  [s1 EXCEPT !.eventQueue = insert(s1, e), !.isInQueue[e] = TRUE]

\* Event::post
post(s, e, myTime, disp) ==
    IF myTime < getTime(s) THEN [s EXCEPT !.exc = "PostInPast"]
    ELSE IF s.isInQueue[e] THEN [s EXCEPT !.exc = "QueueDuplicate"]
    ELSE LET s1 == [s EXCEPT !.counter = @ + 1,
                             !.order[e] = s.counter + 1,
                             !.time[e] = myTime,
                             !.disposable[e] = disp]
         IN  [s1 EXCEPT !.eventQueue = insert(s1, e), !.isInQueue[e] = TRUE]

\* drop leaving the flag set
drop_keep_flag(s, e) ==
    IF s.isInQueue[e] THEN [s EXCEPT !.eventQueue = erase(@, e)] ELSE s

\* Event::drop
drop(s, e) ==
    IF s.isInQueue[e]
    THEN [s EXCEPT !.eventQueue = erase(@, e), !.isInQueue[e] = FALSE]
    ELSE s

\* setPriority losing the new value
setPriority_lost(s, e, p) == s

\* Event::setPriority
setPriority(s, e, p) == [s EXCEPT !.priority[e] = p]

\* restorePriority leaving the priority as it is
restorePriority_skip(s, e) == s

\* Event::restorePriority
restorePriority(s, e) == [s EXCEPT !.priority[e] = stdPriority[e]]

\* process posting the event for the next tick
process_next_tick(s, e, disp) ==
    LET s1 == post(setPriority(s, e, IMMEDIATE_PRIORITY), e, getTime(s) + 1, disp)
    IN  IF s1.exc # "none" THEN [s EXCEPT !.exc = s1.exc] ELSE s1

\* process posting the event with the priority it has
process_keep_priority(s, e, disp) == post(s, e, getTime(s), disp)

\* Event::process
process(s, e, disp) ==
    LET s1 == post(setPriority(s, e, IMMEDIATE_PRIORITY), e, getTime(s), disp)
    IN  IF s1.exc # "none" THEN [s EXCEPT !.exc = s1.exc] ELSE s1

\* RandomGen::RandomGen
RandomGen(sd) == [seed |-> sd, xn |-> sd]

\* sample without the correction of a negative result
sample_no_wrap(g) ==
    LET xq == g.xn \div Q
        xr == g.xn % Q
    IN  [g EXCEPT !.xn = A * xr - R * xq]

\* RandomGen::sample : the new state, which is also the value returned
sample(g) ==
    LET xq == g.xn \div Q
        xr == g.xn % Q
        x1 == A * xr - R * xq
    IN  [g EXCEPT !.xn = IF x1 < 0 THEN x1 + M ELSE x1]

\* init setting the seed and leaving the current state
init_seed_only(g, sd) == [g EXCEPT !.seed = sd]

\* RandomGen::init
init(g, sd) == [g EXCEPT !.xn = sd, !.seed = sd]

\* UniformVar::get on the standard generator: one sample is drawn
get(s) == [s EXCEPT !.gen["std"] = sample(@)]

\* an entry of the trace of calls: what is called, on which entity or with
\* which argument, and the clock, the number of firings so far, the length
\* of the queue and the state of the standard generator at the call
Call(s, op, who, n) ==
    [s EXCEPT !.calls = Append(@, [op |-> op, who |-> who, n |-> n,
                                   gt |-> s.globTime, at |-> Len(s.log),
                                   qlen |-> Len(s.eventQueue),
                                   xn |-> s.gen["std"].xn])]

\* SchedInstr::_endEvt, SchedInstr::_threEvt
endEvt == "A"

threEvt == "B"

\* the kernel of a task: an RTKernel, a kernel of another class, or none
Kernels == {"RTKernel", "AbsKernel", "NULL"}

\* the kernels the cast to RTKernel accepts: one whose dispatch() leaves the
\* instruction alone, and one whose dispatch() puts the task of the
\* instruction in execution again, which schedules the instruction
RTKernels == {"RTKernel", "RTKernelAgain"}

\* SchedInstr::schedule
schedule(s) == post(Call(s, "schedule", "-", 0), endEvt, getTime(s), FALSE)

\* Task::onInstrEnd, RTKernel::disableThreshold, RTKernel::dispatch : the
\* calls are recorded
onInstrEnd(s) == Call(s, "onInstrEnd", "father", 0)

disableThreshold(s) == Call(s, "disableThreshold", "k", 0)

dispatch(s) ==
    LET s1 == Call(s, "dispatch", "k", 0)
    IN  IF kernel = "RTKernelAgain" THEN schedule(s1) ELSE s1

\* onEnd processing _threEvt before the kernel dispatches
onEnd_process_first(s) ==
    LET s1 == onInstrEnd(s)
    IN  IF kernel \notin RTKernels THEN [s1 EXCEPT !.exc = "BaseExc"]
        ELSE Bind(process(Call(s1, "process", "_threEvt", 0), threEvt, FALSE),
                  LAMBDA s2 : IF s2.exc # "none" THEN s2
                              ELSE dispatch(disableThreshold(s2)))

\* onEnd without the test of the kernel
onEnd_no_check(s) ==
    process(Call(dispatch(disableThreshold(onInstrEnd(s))),
                 "process", "_threEvt", 0), threEvt, FALSE)

\* onEnd testing the kernel before it tells the task
onEnd_check_first(s) ==
    IF kernel \notin RTKernels THEN [s EXCEPT !.exc = "BaseExc"]
    ELSE Bind(dispatch(disableThreshold(onInstrEnd(s))),
              LAMBDA s2 :
                  IF s2.exc # "none" THEN s2
                  ELSE process(Call(s2, "process", "_threEvt", 0),
                               threEvt, FALSE))

\* SchedInstr::onEnd
onEnd(s) ==
    LET s1 == onInstrEnd(s)
    IN  IF kernel \notin RTKernels THEN [s1 EXCEPT !.exc = "BaseExc"]
        ELSE Bind(dispatch(disableThreshold(s1)),
                  LAMBDA s2 :
                      IF s2.exc # "none" THEN s2
                      ELSE process(Call(s2, "process", "_threEvt", 0),
                                   threEvt, FALSE))

\* deschedule dropping the threshold event
deschedule_threEvt(s) == drop(s, threEvt)

\* SchedInstr::deschedule
deschedule(s) == drop(s, endEvt)

\* SchedInstr::endRun
SchedInstr_endRun(s) == drop(drop(s, endEvt), threEvt)

\* Event::doit, as overridden for event e
doit(s, e) ==
    LET h == doitOf[e]
        s0 == IF h.draws > 0 THEN get(s) ELSE s
    IN  CASE h.kind = "repost"  -> post(s0, e, getTime(s0) + h.delta, FALSE)
          [] h.kind = "post"    -> post(s0, h.target, getTime(s0) + h.delta, FALSE)
          [] h.kind = "process" -> process(s0, h.target, FALSE)
          [] h.kind = "onEnd"   -> onEnd(s0)
          [] OTHER              -> s0

\* Trace::probe / BaseStat::probe : what a probe reads after the handler
probe(s, e) ==
    [s EXCEPT !.log[Len(s.log)] =
        [@ EXCEPT !.probed = TRUE, !.lastTime = getLastTime(s, e),
                  !.time = s.time[e], !.newOrder = s.order[e]]]

\* the probes ps[i], ps[i + 1], ... of one kind are notified in turn
RECURSIVE notifyFrom(_, _, _, _)
notifyFrom(s, op, ps, i) ==
    IF i > Len(ps) THEN s
    ELSE notifyFrom(Call(s, op, ps[i], 0), op, ps, i + 1)

\* notification in the order traces, particles, stats
notify_traces_first(s, e) ==
    notifyFrom(notifyFrom(notifyFrom(s, "Trace::probe", probes.traces[e], 1),
                          "Particle::probe", probes.particles[e], 1),
               "BaseStat::probe", probes.stats[e], 1)

\* Event::action : the loops over _stats, _particles and _traces
notify(s, e) ==
    notifyFrom(notifyFrom(notifyFrom(s, "BaseStat::probe", probes.stats[e], 1),
                          "Particle::probe", probes.particles[e], 1),
               "Trace::probe", probes.traces[e], 1)

\* Event::action
action(s, e) ==
    LET s1 == [s EXCEPT !.lastTime[e] = s.time[e], !.isInQueue[e] = FALSE,
                        !.log = Append(@, [ev |-> e, gt |-> getTime(s),
                                           prio |-> s.priority[e],
                                           order |-> s.order[e],
                                           probed |-> FALSE, lastTime |-> -1,
                                           time |-> -1, newOrder |-> -1])]
        s2 == doit(restorePriority(s1, e), e)
    IN  IF s2.exc # "none" THEN s2 ELSE notify(probe(s2, e), e)

\* delete temp
delete(s, e) == [s EXCEPT !.destroyed[e] = @ + 1]

\* sim_step without the extraction of the first event
sim_step_no_drop(s) ==
    LET temp == getFirst(s)
    IN  IF temp = "NULL" THEN [s EXCEPT !.exc = "NoMoreEvents"]
        ELSE LET mytime == s.time[temp]
                 s2 == action(setTime(s, mytime), temp)
             IN  IF s2.exc # "none" THEN s2
                 ELSE [(IF isDisposable(s2, temp) THEN delete(s2, temp) ELSE s2)
                          EXCEPT !.ret = mytime]

\* sim_step without setTime(mytime)
sim_step_no_set_time(s) ==
    LET temp == getFirst(s)
    IN  IF temp = "NULL" THEN [s EXCEPT !.exc = "NoMoreEvents"]
        ELSE LET s1 == drop(s, temp)
                 mytime == s1.time[temp]
                 s2 == action(s1, temp)
             IN  IF s2.exc # "none" THEN s2
                 ELSE [(IF isDisposable(s2, temp) THEN delete(s2, temp) ELSE s2)
                          EXCEPT !.ret = mytime]

\* sim_step advancing the clock after the event has acted
sim_step_time_after(s) ==
    LET temp == getFirst(s)
    IN  IF temp = "NULL" THEN [s EXCEPT !.exc = "NoMoreEvents"]
        ELSE LET s1 == drop(s, temp)
                 mytime == s1.time[temp]
             IN  Bind(action(s1, temp),
                      LAMBDA s2 :
                          IF s2.exc # "none" THEN s2
                          ELSE [(IF isDisposable(s2, temp) THEN delete(s2, temp)
                                 ELSE s2) EXCEPT !.ret = mytime,
                                                 !.globTime = mytime])

\* Simulation::sim_step
sim_step(s) ==
    LET temp == getFirst(s)
    IN  IF temp = "NULL" THEN [s EXCEPT !.exc = "NoMoreEvents"]
        ELSE LET s1 == drop(s, temp)
                 mytime == s1.time[temp]
             IN  Bind(action(setTime(s1, mytime), temp),
                      LAMBDA s2 :
                          IF s2.exc # "none" THEN s2
                          ELSE [(IF isDisposable(s2, temp) THEN delete(s2, temp)
                                 ELSE s2) EXCEPT !.ret = mytime])

\* the loop of clearEventQueue leaving the disposable events alive
RECURSIVE clearLoop_no_delete(_)
clearLoop_no_delete(s) ==
    LET temp == getFirst(s)
    IN  IF temp = "NULL" THEN s ELSE clearLoop_no_delete(drop(s, temp))

\* Simulation::clearEventQueue : the loop
RECURSIVE clearLoop(_)
clearLoop(s) ==
    LET temp == getFirst(s)
    IN  IF temp = "NULL" THEN s
        ELSE LET s1 == drop(s, temp)
             IN  clearLoop(IF isDisposable(s1, temp) THEN delete(s1, temp) ELSE s1)

\* Simulation::clearEventQueue
clearEventQueue(s) ==
    [clearLoop(Call(s, "clearEventQueue", "-", 0)) EXCEPT !.globTime = 0]

\* Simulation::getNextEventTime : the time of the first event; the caller
\* has checked that there is one (NoMoreEventsInQueue otherwise)
getNextEventTime(s) == s.time[getFirst(s)]

\* Simulation::run_to : the while loop.  The exception NoMoreEventsInQueue
\* of getNextEventTime ends the loop and is caught; any other exception
\* leaves run_to.
\* the loop of run_to stopping at the events of time stop
RECURSIVE runToLoop_before(_, _)
runToLoop_before(s, stop) ==
    IF getFirst(s) = "NULL" \/ s.counter > MaxOrder \/ Len(s.log) > MaxOrder
    THEN s
    ELSE IF getNextEventTime(s) < stop
         THEN LET s1 == sim_step(s)
              IN  IF s1.exc # "none" THEN s1
                  ELSE runToLoop_before([s1 EXCEPT !.globTime = s1.ret], stop)
         ELSE s

RECURSIVE runToLoop(_, _)
runToLoop(s, stop) ==
    IF getFirst(s) = "NULL" \/ s.counter > MaxOrder \/ Len(s.log) > MaxOrder
    THEN s
    ELSE IF getNextEventTime(s) <= stop
         THEN Bind(sim_step(s),
                   LAMBDA s1 :
                       IF s1.exc # "none" THEN s1
                       ELSE runToLoop([s1 EXCEPT !.globTime = s1.ret], stop))
         ELSE s

\* run_to setting the clock to stop without the test
clamp_always(s, stop) == [s EXCEPT !.globTime = stop]

\* Simulation::run_to : the clamp of the clock after the loop
clamp(s, stop) == IF s.globTime < stop THEN [s EXCEPT !.globTime = stop] ELSE s

\* Simulation::run_to
run_to(s, stop) ==
    Bind(runToLoop(s, stop),
         LAMBDA s1 :
             IF s1.exc # "none" THEN s1
             ELSE Bind(clamp(s1, stop),
                       LAMBDA s2 : [s2 EXCEPT !.ret = s2.globTime]))

\* BaseStat::init, newRun, endRun, endSim : the calls are recorded
BaseStat_init(s, n) == Call(s, "BaseStat::init", "-", n)

BaseStat_newRun(s) == Call(s, "BaseStat::newRun", "-", 0)

BaseStat_endRun(s) == Call(s, "BaseStat::endRun", "-", 0)

BaseStat_endSim(s) == Call(s, "BaseStat::endSim", "-", 0)

\* Entity::newRun, as overridden for entity en
newRun(s, en) ==
    LET h == hookOf[en].newRun
        s1 == Call(s, "newRun", en, 0)
    IN  CASE h.kind = "post" -> post(s1, h.target, h.at, FALSE)
          [] OTHER           -> s1

\* Entity::endRun, as overridden for entity en
endRun(s, en) ==
    LET h == hookOf[en].endRun
        s1 == Call(s, "endRun", en, 0)
    IN  CASE h.kind = "drop" -> drop(s1, h.target)
          [] OTHER           -> s1

\* Entity::callNewRun : newRun() of every registered entity, from the i-th on
RECURSIVE newRunFrom(_, _)
newRunFrom(s, i) ==
    IF i > Len(entities) THEN s
    ELSE LET s1 == newRun(s, entities[i])
         IN  IF s1.exc # "none" THEN s1 ELSE newRunFrom(s1, i + 1)

callNewRun(s) == newRunFrom(s, 1)

\* Entity::callEndRun : endRun() of every registered entity, from the i-th on
RECURSIVE endRunFrom(_, _)
endRunFrom(s, i) ==
    IF i > Len(entities) THEN s
    ELSE LET s1 == endRun(s, entities[i])
         IN  IF s1.exc # "none" THEN s1 ELSE endRunFrom(s1, i + 1)

callEndRun(s) == endRunFrom(s, 1)

\* initRuns seeding the standard generator again
initRuns_reseed(s, nRuns) ==
    [BaseStat_init(s, nRuns) EXCEPT !.globTime = 0, !.end = FALSE,
                                    !.gen["std"] = init(@, @.seed)]

\* Simulation::initRuns
initRuns(s, nRuns) ==
    [BaseStat_init(s, nRuns) EXCEPT !.globTime = 0, !.end = FALSE]

\* initSingleRun calling the hooks before it resets the clock
initSingleRun_hooks_first(s) ==
    LET s1 == callNewRun(s)
    IN  IF s1.exc # "none" THEN s1
        ELSE BaseStat_newRun([s1 EXCEPT !.globTime = 0])

\* Simulation::initSingleRun
initSingleRun(s) ==
    LET s1 == callNewRun([s EXCEPT !.globTime = 0])
    IN  IF s1.exc # "none" THEN s1 ELSE BaseStat_newRun(s1)

\* endSingleRun leaving the queue and the clock as they are
endSingleRun_no_clear(s) ==
    LET s1 == callEndRun(s)
    IN  IF s1.exc # "none" THEN s1 ELSE BaseStat_endRun(s1)

\* Simulation::endSingleRun
endSingleRun(s) ==
    LET s1 == callEndRun(s)
    IN  IF s1.exc # "none" THEN s1
        ELSE clearEventQueue(BaseStat_endRun(s1))

\* Simulation::endSim
endSim(s) == BaseStat_endSim(s)

\* the main cycle without the catch of NoMoreEventsInQueue
RECURSIVE mainCycle_no_catch(_, _)
mainCycle_no_catch(s, endTick) ==
    IF s.globTime < endTick
    THEN Bind(sim_step(s),
              LAMBDA s1 :
                  IF s1.exc # "none" THEN s1
                  ELSE mainCycle_no_catch([s1 EXCEPT !.globTime = s1.ret,
                                                     !.ret = -1], endTick))
    ELSE s

\* the main cycle going on while the clock is at most endTick
RECURSIVE mainCycle_inclusive(_, _)
mainCycle_inclusive(s, endTick) ==
    IF s.globTime <= endTick
    THEN Bind(sim_step(s),
              LAMBDA s1 :
                  IF s1.exc = "NoMoreEvents" THEN s
                  ELSE IF s1.exc # "none" THEN s1
                  ELSE mainCycle_inclusive([s1 EXCEPT !.globTime = s1.ret,
                                                      !.ret = -1], endTick))
    ELSE s

\* Simulation::run : the main cycle of one replica.  NoMoreEventsInQueue
\* ends the cycle and is caught; any other exception leaves run.
RECURSIVE mainCycle(_, _)
mainCycle(s, endTick) ==
    IF s.globTime < endTick
    THEN Bind(sim_step(s),
              LAMBDA s1 :
                  IF s1.exc = "NoMoreEvents" THEN s
                  ELSE IF s1.exc # "none" THEN s1
                  ELSE mainCycle([s1 EXCEPT !.globTime = s1.ret, !.ret = -1],
                                 endTick))
    ELSE s

\* Simulation::run : one replica
replica(s, endTick) ==
    Bind(initSingleRun(s),
         LAMBDA s1 :
             IF s1.exc # "none" THEN s1
             ELSE Bind(mainCycle(s1, endTick),
                       LAMBDA s2 :
                           IF s2.exc # "none" THEN s2 ELSE endSingleRun(s2)))

\* Simulation::run : the loop of the replicas
RECURSIVE replicas(_, _)
replicas(s, endTick) ==
    IF s.actRuns < s.numRuns
    THEN Bind(replica(s, endTick),
              LAMBDA s3 :
                  IF s3.exc # "none" THEN s3
                  ELSE replicas([s3 EXCEPT !.actRuns = @ + 1], endTick))
    ELSE s

\* Simulation::run : the flags of the batch modes
initializeRuns(nRuns) == nRuns < -1 \/ nRuns >= 1

terminateSim(nRuns) == nRuns >= 0

\* the number of replicas without the replacement of 2 by 3
replicasOf_two(nRuns) == IF nRuns < 2 THEN 1 ELSE nRuns

\* Simulation::run : the value of numRuns
replicasOf(nRuns) ==
    LET n == IF nRuns < -1 \/ nRuns = -1 \/ nRuns = 0 \/ nRuns = 1
             THEN 1 ELSE nRuns
    IN  IF n = 2 THEN 3 ELSE n

\* Simulation::run
run(s, endTick, nRuns) ==
    LET s1 == [s EXCEPT !.numRuns = replicasOf(nRuns)]
        s2 == IF initializeRuns(nRuns) THEN initRuns(s1, s1.numRuns) ELSE s1
    IN  Bind(replicas([s2 EXCEPT !.actRuns = 0], endTick),
             LAMBDA s3 :
                 IF s3.exc # "none" THEN s3
                 ELSE IF terminateSim(nRuns) THEN endSim([s3 EXCEPT !.end = TRUE])
                 ELSE [s3 EXCEPT !.end = TRUE])

(***************************************************************************)
(* The state machine.                                                      *)
(***************************************************************************)
\* the program variables after a call that ends in s
Write(s, op) ==
    /\ time' = s.time
    /\ lastTime' = s.lastTime
    /\ priority' = s.priority
    /\ order' = s.order
    /\ isInQueue' = s.isInQueue
    /\ disposable' = s.disposable
    /\ destroyed' = s.destroyed
    /\ eventQueue' = s.eventQueue
    /\ counter' = s.counter
    /\ globTime' = s.globTime
    /\ end' = s.end
    /\ log' = s.log
    /\ exc' = s.exc
    /\ ret' = s.ret
    /\ lastOp' = op
    /\ gen' = s.gen
    /\ numRuns' = s.numRuns
    /\ actRuns' = s.actRuns
    /\ UNCHANGED << stdPriority, doitOf, out, entities, kernel, pstdgen, objects >>

\* a call of the client of the event engine; the trace of hook and
\* statistics calls is not observed
Commit(s, op) ==
    /\ s.counter <= MaxOrder
    /\ Len(s.log) <= MaxOrder
    /\ Write(s, op)
    /\ UNCHANGED << calls, nCalls, args, probes >>


\* no probe is attached to any event
NoProbes == [stats |-> [e \in Events |-> << >>],
             particles |-> [e \in Events |-> << >>],
             traces |-> [e \in Events |-> << >>]]

\* an object the client may still use: it has not been deleted
Live(e) == destroyed[e] = 0

\* the state after the construction of the simulation, of the events with
\* the handlers d and the priorities p, and of the entities ents
Construct(d, p, ents) ==
    /\ time = [e \in Events |-> 0]
    /\ lastTime = [e \in Events |-> 0]
    /\ doitOf = d
    /\ stdPriority = p
    /\ priority = p
    /\ order = [e \in Events |-> 0]
    /\ isInQueue = [e \in Events |-> FALSE]
    /\ disposable = [e \in Events |-> FALSE]
    /\ destroyed = [e \in Events |-> 0]
    /\ eventQueue = << >>
    /\ counter = 0
    /\ globTime = 0
    /\ end = FALSE
    /\ log = << >>
    /\ exc = "none"
    /\ ret = -1
    /\ lastOp = "init"
    /\ out = [g \in Gens |-> << >>]
    /\ entities = ents
    /\ numRuns = 0
    /\ actRuns = 0
    /\ calls = << >>
    /\ nCalls = 0
    /\ args = << >>
    /\ probes = NoProbes
    /\ pstdgen = "std"
    /\ objects = << >>

Init ==
    /\ \E sys \in Systems : Construct(sys.doit, sys.prio, << >>)
    /\ gen = [g \in Gens |-> RandomGen(StdSeed)]
    /\ kernel = "RTKernel"

Post ==
    \E e \in Events, t \in Ticks, d \in BOOLEAN :
        /\ Live(e)
        /\ d => e \in Dynamic
        /\ Commit(post(St, e, t, d), "post")

Drop ==
    \E e \in Events :
        /\ Live(e)
        /\ Commit(drop(St, e), "drop")

Process ==
    \E e \in Events, d \in BOOLEAN :
        /\ Live(e)
        /\ d => e \in Dynamic
        /\ Commit(process(St, e, d), "process")

SimStep == Commit(sim_step(St), "sim_step")

RunTo == \E stop \in Ticks : Commit(run_to(St, stop), "run_to")

InitRuns == Commit(initRuns(St, 1), "initRuns")

InitSingleRun == Commit(initSingleRun(St), "initSingleRun")

EndSingleRun == Commit(endSingleRun(St), "endSingleRun")

ClearEventQueue == Commit(clearEventQueue(St), "clearEventQueue")

Next ==
    \/ Post
    \/ Drop
    \/ Process
    \/ SimStep
    \/ RunTo
    \/ InitRuns
    \/ InitSingleRun
    \/ EndSingleRun
    \/ ClearEventQueue

Spec == Init /\ [][Next]_vars

(***************************************************************************)
(* The same client on a system whose handlers chain: the handler of B      *)
(* posts A at the current time, A has no handler.                          *)
(***************************************************************************)
ChainSystem ==
    [doit |-> [e \in Events |->
                  IF e = "B"
                  THEN [kind |-> "post", target |-> "A", delta |-> 0, draws |-> 0]
                  ELSE [kind |-> "none", target |-> e, delta |-> 0, draws |-> 0]],
     prio |-> [e \in Events |-> DEFAULT_PRIORITY]]

InitChain ==
    /\ Construct(ChainSystem.doit, ChainSystem.prio, << >>)
    /\ gen = [g \in Gens |-> RandomGen(StdSeed)]
    /\ kernel = "RTKernel"

SpecChain == InitChain /\ [][Next]_vars

(***************************************************************************)
(* The run driver.  The events are posted by the newRun() hooks of the      *)
(* entities; the client calls run, and the functions run is made of.       *)
(***************************************************************************)
\* Either E1 alone is registered and A is the periodic event of a DeltaVar(7)
\* inter-arrival time, which draws no number; or E1 and E2 are registered
\* and the inter-arrival time of A is a UniformVar that always yields 50 and
\* draws one number; or E1 alone is registered and A fires once a run, so that
\* the queue runs empty.
RunSystems ==
    { [doit |-> [e \in Events |->
                    [kind |-> "none", target |-> e, delta |-> 0, draws |-> 0]],
       prio |-> [e \in Events |-> DEFAULT_PRIORITY],
       entities |-> << "E1" >>],
      [doit |-> [e \in Events |->
                    IF e = "A"
                    THEN [kind |-> "repost", target |-> "A", delta |-> 7, draws |-> 0]
                    ELSE [kind |-> "none", target |-> e, delta |-> 0, draws |-> 0]],
       prio |-> [e \in Events |-> DEFAULT_PRIORITY],
       entities |-> << "E1" >>],
      [doit |-> [e \in Events |->
                    IF e = "A"
                    THEN [kind |-> "repost", target |-> "A", delta |-> 50, draws |-> 1]
                    ELSE [kind |-> "none", target |-> e, delta |-> 0, draws |-> 0]],
       prio |-> [e \in Events |-> DEFAULT_PRIORITY],
       entities |-> << "E1", "E2" >>] }

\* the values of nRuns the client passes to run
NRuns == -3..4

\* the arguments (length, nRuns) the client passes to run
RunInputs == ({100} \X NRuns) \cup { << 0, 1 >>, << 3, 3 >> }

InitRun ==
    /\ \E sys \in RunSystems :
          Construct(sys.doit, sys.prio, sys.entities)
    /\ gen = [g \in Gens |-> RandomGen(StdSeed)]
    /\ kernel = "RTKernel"

\* a call of the client of the run driver; the trace of the call is kept
CommitRun(s, op, a) ==
    /\ nCalls < MaxCalls
    /\ Write(s, op)
    /\ calls' = s.calls
    /\ nCalls' = nCalls + 1
    /\ args' = a
    /\ UNCHANGED probes

Run == \E a \in RunInputs : CommitRun(run(St, a[1], a[2]), "run", a)

SimStepR == CommitRun(sim_step(St), "sim_step", << >>)

RunToR ==
    \E stop \in Ticks :
        \E s \in {run_to(St, stop)} :
            /\ s.counter <= MaxOrder
            /\ Len(s.log) <= MaxOrder
            /\ CommitRun(s, "run_to", << stop >>)

InitRunsR == CommitRun(initRuns(St, 1), "initRuns", << 1 >>)

InitSingleRunR == CommitRun(initSingleRun(St), "initSingleRun", << >>)

EndSingleRunR == CommitRun(endSingleRun(St), "endSingleRun", << >>)

ClearEventQueueR == CommitRun(clearEventQueue(St), "clearEventQueue", << >>)

NextRun ==
    \/ Run
    \/ SimStepR
    \/ RunToR
    \/ InitRunsR
    \/ InitSingleRunR
    \/ EndSingleRunR
    \/ ClearEventQueueR

SpecRun == InitRun /\ [][NextRun]_vars

(***************************************************************************)
(* The scheduling instruction.  A is the event _endEvt of a SchedInstr,    *)
(* whose handler calls onEnd(), B is its event _threEvt; the task of the   *)
(* instruction has a real-time kernel, a kernel of another class, or none. *)
(***************************************************************************)
SchedSystem ==
    [doit |-> [e \in Events |->
                  IF e = endEvt
                  THEN [kind |-> "onEnd", target |-> threEvt, delta |-> 0, draws |-> 0]
                  ELSE [kind |-> "none", target |-> e, delta |-> 0, draws |-> 0]],
     prio |-> [e \in Events |-> DEFAULT_PRIORITY]]

\* the trace objects the client may attach
Traces == {"t1"}

InitSched ==
    /\ Construct(SchedSystem.doit, SchedSystem.prio, << >>)
    /\ gen = [g \in Gens |-> RandomGen(StdSeed)]
    /\ kernel \in Kernels

\* a call of the client of the instruction; the trace of the calls is kept
\* over the whole history
CommitSched(s, op, a) ==
    /\ nCalls < MaxCalls
    /\ Write(s, op)
    /\ calls' = calls \o s.calls
    /\ nCalls' = nCalls + 1
    /\ args' = a
    /\ UNCHANGED probes

Schedule == CommitSched(schedule(St), "schedule", << >>)

Deschedule == CommitSched(deschedule(St), "deschedule", << >>)

EndRunI == CommitSched(SchedInstr_endRun(St), "endRun", << >>)

SimStepI == CommitSched(sim_step(St), "sim_step", << >>)

RunToI ==
    \E stop \in Ticks :
        \E s \in {run_to(St, stop)} :
            /\ s.counter <= MaxOrder
            /\ Len(s.log) <= MaxOrder
            /\ CommitSched(s, "run_to", << stop >>)

\* SchedInstr::setTrace, before the simulation starts
SetTrace ==
    \E t \in Traces :
        /\ nCalls = 0
        /\ probes.traces[endEvt] = << >>
        /\ probes' = [probes EXCEPT !.traces[endEvt] = Append(@, t),
                                    !.traces[threEvt] = Append(@, t)]
        /\ lastOp' = "setTrace"
        /\ UNCHANGED << time, lastTime, priority, stdPriority, order, isInQueue,
                        disposable, destroyed, doitOf, eventQueue, counter,
                        globTime, end, log, exc, ret, gen, out, entities,
                        numRuns, actRuns, calls, nCalls, args, kernel, pstdgen,
                        objects >>

NextSched ==
    \/ Schedule
    \/ Deschedule
    \/ EndRunI
    \/ SimStepI
    \/ RunToI
    \/ SetTrace

SpecSched == InitSched /\ [][NextSched]_vars

(***************************************************************************)
(* The scheduling instruction under a kernel that may schedule it again:   *)
(* the task has an RTKernel, and dispatch() either leaves the instruction  *)
(* alone or schedules it again, at the tick of onEnd().                    *)
(***************************************************************************)
InitResched ==
    /\ Construct(SchedSystem.doit, SchedSystem.prio, << >>)
    /\ gen = [g \in Gens |-> RandomGen(StdSeed)]
    /\ kernel \in RTKernels

\* a call of the client of the instruction; the trace of the calls is kept
\* over the whole history
CommitResched(s, op, a) ==
    /\ nCalls < MaxSteps
    /\ Write(s, op)
    /\ calls' = calls \o s.calls
    /\ nCalls' = nCalls + 1
    /\ args' = a
    /\ UNCHANGED probes

ScheduleK == CommitResched(schedule(St), "schedule", << >>)

DescheduleK == CommitResched(deschedule(St), "deschedule", << >>)

EndRunK == CommitResched(SchedInstr_endRun(St), "endRun", << >>)

SimStepK == CommitResched(sim_step(St), "sim_step", << >>)

RunToK ==
    \E stop \in Ticks :
        \E s \in {run_to(St, stop)} :
            /\ s.counter <= MaxOrder
            /\ Len(s.log) <= MaxOrder
            /\ CommitResched(s, "run_to", << stop >>)

\* Simulation::endSingleRun at the end of a replica, the instruction being a
\* registered entity: its endRun(), BaseStat::endRun, clearEventQueue
EndSingleRunK ==
    CommitResched(clearEventQueue(BaseStat_endRun(SchedInstr_endRun(St))),
                  "endSingleRun", << >>)

NextResched ==
    \/ ScheduleK
    \/ EndSingleRunK
    \/ DescheduleK
    \/ EndRunK
    \/ SimStepK
    \/ RunToK

SpecResched == InitResched /\ [][NextResched]_vars

(***************************************************************************)
(* The probes.  The client attaches statistics, particles and traces to    *)
(* the two events of the instruction before the simulation starts.         *)
(***************************************************************************)
\* the probe objects the client may attach
Stats == {"s1", "s2"}

Particles == {"c1"}

InitProbe ==
    /\ Construct(SchedSystem.doit, SchedSystem.prio, << >>)
    /\ gen = [g \in Gens |-> RandomGen(StdSeed)]
    /\ kernel = "RTKernel"

\* all variables but probes and lastOp
ProbeFrame ==
    UNCHANGED << time, lastTime, priority, stdPriority, order, isInQueue,
                 disposable, destroyed, doitOf, eventQueue, counter, globTime,
                 end, log, exc, ret, gen, out, entities, numRuns, actRuns,
                 calls, nCalls, args, kernel, pstdgen, objects >>

\* p is an element of the list ps
Attached(ps, p) == \E i \in 1..Len(ps) : ps[i] = p

\* Event::addStat
AddStat ==
    \E e \in Events, p \in Stats :
        /\ nCalls = 0
        /\ ~ Attached(probes.stats[e], p)
        /\ probes' = [probes EXCEPT !.stats[e] = Append(@, p)]
        /\ lastOp' = "addStat"
        /\ ProbeFrame

\* Event::addParticle
AddParticle ==
    \E e \in Events, p \in Particles :
        /\ nCalls = 0
        /\ ~ Attached(probes.particles[e], p)
        /\ probes' = [probes EXCEPT !.particles[e] = Append(@, p)]
        /\ lastOp' = "addParticle"
        /\ ProbeFrame

\* Event::addTrace
AddTrace ==
    \E e \in Events, p \in Traces :
        /\ nCalls = 0
        /\ ~ Attached(probes.traces[e], p)
        /\ probes' = [probes EXCEPT !.traces[e] = Append(@, p)]
        /\ lastOp' = "addTrace"
        /\ ProbeFrame

NextProbe ==
    \/ AddStat
    \/ AddParticle
    \/ AddTrace
    \/ Schedule
    \/ SimStepI
    \/ RunToI

SpecProbe == InitProbe /\ [][NextProbe]_vars

(***************************************************************************)
(* The clock seen by handlers and probes.  The client attaches statistics  *)
(* to the two events of the instruction, posts the events for the current  *)
(* or a later time, steps the simulation and starts a new run.             *)
(***************************************************************************)
PostI ==
    \E e \in Events, t \in Ticks :
        CommitSched(post(St, e, t, FALSE), "post", << e, t >>)

InitSingleRunI == CommitSched(initSingleRun(St), "initSingleRun", << >>)

NextClock ==
    \/ AddStat
    \/ PostI
    \/ SimStepI
    \/ RunToI
    \/ InitSingleRunI

SpecClock == InitProbe /\ [][NextClock]_vars

(***************************************************************************)
(* The factories.  The client calls createInstance of a class with a       *)
(* vector of n strings.                                                    *)
(***************************************************************************)
\* the subclasses of RandomVar that have a factory
VarClasses == {"DeltaVar", "UniformVar", "ExponentialVar", "ParetoVar",
               "NormalVar", "PoissonVar", "DetVar"}

Classes == VarClasses \cup {"SchedInstr", "PeriodicTask"}

\* the size createInstance of a subclass of RandomVar tests par.size() against
Arity ==
    [c \in VarClasses |->
        IF c \in {"UniformVar", "ParetoVar", "NormalVar"} THEN 2 ELSE 1]

\* the ways a call of createInstance ends
Thrown(x) == [exc |-> x, made |-> FALSE]

Made == [exc |-> "none", made |-> TRUE]

\* an access to an element the vector does not have is undefined: the call
\* faults, or goes on with whatever the access yields
OutOfRange == {Thrown("fault"), Made}

\* DeltaVar, UniformVar, ExponentialVar, ParetoVar, NormalVar, PoissonVar,
\* DetVar ::createInstance, on a vector of n strings.  The constructor of
\* DetVar opens the file named by par[0] and throws if it cannot.
VarCreateInstance(c, n) ==
    IF n # Arity[c] THEN {Thrown("ParseExc")}
    ELSE IF c = "DetVar" THEN {Thrown("Exc"), Made}
    ELSE {Made}

\* SchedInstr::createInstance : par[1] and par[0] are read, untested
SchedInstrCreateInstance(n) == IF n < 2 THEN OutOfRange ELSE {Made}

\* the positions of par a call of createInstance of class c reads, in order,
\* when par has n strings
Reads(c, n) ==
    CASE c \in VarClasses ->
             IF n # Arity[c] THEN << >>
             ELSE IF Arity[c] = 2 THEN << 0, 1 >> ELSE << 0 >>
      [] c = "SchedInstr"   -> << 1, 0 >>
      [] c = "PeriodicTask" ->
             << 0, 1, 2 >> \o (IF n > 2 THEN << 3 >> ELSE << >>)
                          \o (IF n > 4 THEN << 4 >> ELSE << >>)
                          \o (IF n > 5 THEN << 5 >> ELSE << >>)

\* the name and the queue size the client spells in par[3] and par[4]
ParName == "T1"

ParQueueSize == 250

\* PeriodicTask::createInstance : the name of the task, "?" being whatever
\* an access out of the vector yields
NameOf(n) == IF n > 3 THEN ParName ELSE IF n > 2 THEN "?" ELSE ""

\* PeriodicTask::createInstance : the queue size of the task
QueueSizeOf(n) == IF n > 4 THEN ParQueueSize ELSE 100

\* PeriodicTask::createInstance : par[0], par[1], par[2] are read, and par[3]
\* if par.size() > 2
PeriodicTaskCreateInstance(n) ==
    IF \E i \in 1..Len(Reads("PeriodicTask", n)) : Reads("PeriodicTask", n)[i] >= n
    THEN OutOfRange ELSE {Made}

\* createInstance of class c
createInstance(c, n) ==
    CASE c \in VarClasses  -> VarCreateInstance(c, n)
      [] c = "SchedInstr"   -> SchedInstrCreateInstance(n)
      [] c = "PeriodicTask" -> PeriodicTaskCreateInstance(n)

\* RandomVar::RandomVar : the generator of a new variable
RandomVar(g) == IF g = "NULL" THEN pstdgen ELSE g

InitFactory ==
    /\ Construct([e \in Events |->
                     [kind |-> "none", target |-> e, delta |-> 0, draws |-> 0]],
                 [e \in Events |-> DEFAULT_PRIORITY], << >>)
    /\ gen = [g \in Gens |-> RandomGen(StdSeed)]
    /\ kernel = "RTKernel"

\* the variables neither the factories nor the random variables touch
VarFrame ==
    UNCHANGED << time, lastTime, priority, stdPriority, order, isInQueue,
                 disposable, destroyed, doitOf, eventQueue, counter, globTime,
                 end, log, entities, numRuns, actRuns, calls, probes, kernel >>

\* the variables the factories do not touch
FactoryFrame ==
    UNCHANGED << time, lastTime, priority, stdPriority, order, isInQueue,
                 disposable, destroyed, doitOf, eventQueue, counter, globTime,
                 end, log, entities, numRuns, actRuns, probes, kernel >>

\* the object a call of createInstance of class c with n strings constructs
New(c, n) ==
    IF c = "PeriodicTask"
    THEN [class |-> c, gen |-> "-", name |-> NameOf(n), qs |-> QueueSizeOf(n)]
    ELSE [class |-> c, gen |-> IF c \in VarClasses THEN RandomVar("NULL") ELSE "-"]

\* the client calls createInstance of class c with n strings; calls holds
\* the accesses to par the call made
CreateInstance ==
    \E c \in Classes, n \in 0..MaxPar :
        \E o \in createInstance(c, n) :
            /\ nCalls < MaxCalls
            /\ objects' = IF o.made THEN Append(objects, New(c, n)) ELSE objects
            /\ calls' = [i \in 1..Len(Reads(c, n)) |->
                             [op |-> "par[]", who |-> c, n |-> Reads(c, n)[i]]]
            /\ exc' = o.exc
            /\ lastOp' = "createInstance"
            /\ args' = << c, n >>
            /\ nCalls' = nCalls + 1
            /\ UNCHANGED << pstdgen, gen, out, ret >>
            /\ FactoryFrame

NextFactory == CreateInstance

SpecFactory == InitFactory /\ [][NextFactory]_vars

(***************************************************************************)
(* The default generator.  The client changes and restores it, constructs  *)
(* uniform variables with or without a generator of their own, and draws   *)
(* numbers from them.                                                      *)
(***************************************************************************)
\* a variable drawing from the default generator of the moment
generatorOf_default(v) == pstdgen

\* RandomVar::_gen of the variable v
generatorOf(v) == v.gen

\* RandomVar::changeGenerator
ChangeGenerator ==
    \E g \in Gens :
        /\ ret' = pstdgen
        /\ pstdgen' = g
        /\ lastOp' = "changeGenerator"
        /\ args' = << g >>
        /\ exc' = "none"
        /\ UNCHANGED << objects, gen, out, nCalls >>
        /\ VarFrame

\* RandomVar::restoreGenerator
RestoreGenerator ==
    /\ pstdgen' = "std"
    /\ lastOp' = "restoreGenerator"
    /\ args' = << >>
    /\ exc' = "none"
    /\ UNCHANGED << objects, gen, out, ret, nCalls >>
    /\ VarFrame

\* new UniformVar(a, b, g), g being a generator or NULL
NewVar ==
    \E g \in Gens \cup {"NULL"} :
        /\ Len(objects) < MaxObjects
        /\ objects' = Append(objects, [class |-> "UniformVar", gen |-> RandomVar(g)])
        /\ lastOp' = "new"
        /\ args' = << g >>
        /\ exc' = "none"
        /\ UNCHANGED << pstdgen, gen, out, ret, nCalls >>
        /\ VarFrame

\* UniformVar::get of the i-th variable: one sample of its generator
GetVar ==
    \E i \in 1..Len(objects) :
        \E g \in {generatorOf(objects[i])} :
            /\ Len(out[g]) < MaxSamples
            /\ gen' = [gen EXCEPT ![g] = sample(@)]
            /\ out' = [out EXCEPT ![g] = Append(@, gen'[g].xn)]
            /\ lastOp' = "get"
            /\ args' = << i >>
            /\ exc' = "none"
            /\ UNCHANGED << pstdgen, objects, ret, nCalls >>
            /\ VarFrame

NextGen ==
    \/ ChangeGenerator
    \/ RestoreGenerator
    \/ NewVar
    \/ GetVar

SpecGen == InitFactory /\ [][NextGen]_vars

(***************************************************************************)
(* The random generators alone: the client samples them and seeds them     *)
(* again.                                                                  *)
(***************************************************************************)
\* the seeds the client passes to init: small ones, the ones around Q, where
\* the quotient of sample becomes positive, and the largest state
Seeds == {1, 2, 16807, Q - 1, Q, Q + 1, 123456789, M - 1}

InitRng ==
    /\ Construct([e \in Events |->
                     [kind |-> "none", target |-> e, delta |-> 0, draws |-> 0]],
                 [e \in Events |-> DEFAULT_PRIORITY], << >>)
    /\ gen = [g \in Gens |-> RandomGen(StdSeed)]
    /\ kernel = "RTKernel"

RngFrame ==
    UNCHANGED << time, lastTime, priority, stdPriority, order, isInQueue,
                 disposable, destroyed, doitOf, eventQueue, counter, globTime,
                 end, log, exc, entities, numRuns, actRuns, calls,
                 nCalls, args, probes, kernel, pstdgen, objects >>

\* the client calls sample() of generator g
Sample ==
    \E g \in Gens :
        /\ Len(out[g]) < MaxSamples
        /\ gen' = [gen EXCEPT ![g] = sample(@)]
        /\ ret' = gen'[g].xn
        /\ out' = [out EXCEPT ![g] = Append(@, ret')]
        /\ lastOp' = "sample"
        /\ RngFrame

\* the client calls init(sd) of generator g
InitGen ==
    \E g \in Gens, sd \in Seeds :
        /\ gen' = [gen EXCEPT ![g] = init(@, sd)]
        /\ out' = [out EXCEPT ![g] = << >>]
        /\ ret' = -1
        /\ lastOp' = "init"
        /\ RngFrame

NextRng ==
    \/ Sample
    \/ InitGen

SpecRng == InitRng /\ [][NextRng]_vars

(***************************************************************************)
(* Properties.                                                             *)
(***************************************************************************)
\* e is an element of the event queue
InQ(e) == \E i \in 1..Len(eventQueue) : eventQueue[i] = e

\* (time, priority, order) of a precedes that of b
KeyBefore(a, b) ==
    \/ time[a] < time[b]
    \/ time[a] = time[b] /\ priority[a] < priority[b]
    \/ time[a] = time[b] /\ priority[a] = priority[b] /\ order[a] < order[b]

ResetOps == {"initRuns", "initSingleRun", "endSingleRun", "clearEventQueue"}

TimeMonotonicity ==
    \A i, j \in 1..Len(log) : i < j => log[i].gt <= log[j].gt

\* C2 amended: a call other than initRuns, initSingleRun, endSingleRun and
\* clearEventQueue never moves the clock backwards, and every firing it
\* makes sees a clock not smaller than the one before.
TimeMonotonicityWithinRun ==
    [][lastOp' \notin ResetOps =>
        /\ globTime' >= globTime
        /\ \A k \in (Len(log) + 1)..Len(log') :
              /\ log'[k].gt >= globTime
              /\ log'[k].gt <= globTime'
              /\ k > Len(log) + 1 => log'[k].gt >= log'[k - 1].gt]_vars

\* C2 witness: two successive firings of one run, the clock advancing.
TwoStepsAdvance ==
    /\ lastOp = "sim_step"
    /\ Len(log) >= 2
    /\ log[Len(log)].gt > log[Len(log) - 1].gt
    /\ globTime = log[Len(log)].gt

Same(s) ==
    /\ s.time = time /\ s.lastTime = lastTime /\ s.priority = priority
    /\ s.order = order /\ s.isInQueue = isInQueue /\ s.disposable = disposable
    /\ s.destroyed = destroyed /\ s.eventQueue = eventQueue
    /\ s.counter = counter /\ s.globTime = globTime /\ s.end = end
    /\ s.log = log

\* number of entries of e in the queue q
Count(q, e) == Cardinality({ i \in 1..Len(q) : q[i] = e })

\* position of e in the queue q, 0 if absent
Pos(q, e) == IF \E i \in 1..Len(q) : q[i] = e
             THEN CHOOSE i \in 1..Len(q) : q[i] = e ELSE 0

Without(q, e) == SelectSeq(q, LAMBDA x : x # e)

ProgramUnchanged ==
    UNCHANGED << time, lastTime, priority, order, isInQueue, disposable,
                 destroyed, eventQueue, counter, globTime, end, log >>

\* C4 (post): in every reachable state, post(at) fails with PostInPast when
\* at < globalTime and with QueueDuplicate when the event is enqueued, and
\* then changes nothing; otherwise, at = globalTime included, it enqueues
\* the event once with time = at and order = counter + 1.  A failed call of
\* post by the client changes no program variable.
PostContract ==
    /\ [](\A e \in Events, t \in 0..(globTime + 1), d \in BOOLEAN :
            LET s == post(St, e, t, d)
            IN  /\ t < globTime => (s.exc = "PostInPast" /\ Same(s))
                /\ (t >= globTime /\ isInQueue[e]) =>
                       (s.exc = "QueueDuplicate" /\ Same(s))
                /\ (t >= globTime /\ ~ isInQueue[e]) =>
                       /\ s.exc = "none"
                       /\ s.isInQueue[e]
                       /\ s.time[e] = t
                       /\ s.order[e] = counter + 1
                       /\ s.counter = counter + 1
                       /\ Count(s.eventQueue, e) = 1
                       /\ Without(s.eventQueue, e) = eventQueue)
    /\ [][(lastOp' = "post" /\ exc' # "none") =>
            (exc' \in {"PostInPast", "QueueDuplicate"} /\ ProgramUnchanged)]_vars

\* C4 witness: the client has posted an event in the past, and the call
\* failed.
PostInPastSeen ==
    /\ lastOp = "post" /\ exc = "PostInPast"
    /\ globTime > 0 /\ counter > 0

\* C5 (queue membership): an event's flag is set iff the event is an
\* element of the queue, no event occurs twice in the queue, and no deleted
\* event is in the queue.
QueueMembership ==
    \A e \in Events :
        /\ isInQueue[e] <=> InQ(e)
        /\ Count(eventQueue, e) <= 1
        /\ destroyed[e] > 0 => ~ InQ(e)

\* C5 witness: sim_step has taken one of two enqueued events out of the
\* queue and fired it; the other one is still enqueued.
OneFiredOneEnqueued ==
    /\ lastOp = "sim_step"
    /\ Len(log) = 1 /\ Len(eventQueue) = 1
    /\ ~ isInQueue[log[1].ev]
    /\ isInQueue[Head(eventQueue)]
    /\ Head(eventQueue) # log[1].ev

\* C6 (drop): in every reachable state drop() of an event that is not
\* enqueued changes nothing, drop() of an enqueued event takes it out of the
\* queue and changes nothing else but its flag, and a post in the present
\* or future after drop() leaves exactly one entry; a call of drop by the
\* client fires nothing and deletes nothing.
DropIdempotence ==
    /\ [](\A e \in Events :
            LET s == drop(St, e)
            IN  /\ ~ InQ(e) => (s.exc = "none" /\ Same(s))
                /\ InQ(e) =>
                       /\ s.eventQueue = Without(eventQueue, e)
                       /\ s.isInQueue = [isInQueue EXCEPT ![e] = FALSE]
                       /\ Same([s EXCEPT !.eventQueue = eventQueue,
                                         !.isInQueue = isInQueue])
                /\ \A t \in globTime..(globTime + 1) :
                       LET s2 == post(s, e, t, FALSE)
                       IN  s2.exc = "none" /\ Count(s2.eventQueue, e) = 1)
    /\ [][lastOp' = "drop" =>
            /\ exc' = "none"
            /\ UNCHANGED << time, lastTime, priority, order, disposable,
                            destroyed, counter, globTime, end, log >>
            /\ \/ UNCHANGED << eventQueue, isInQueue >>
               \/ \E e \in Events :
                     /\ InQ(e)
                     /\ eventQueue' = Without(eventQueue, e)
                     /\ isInQueue' = [isInQueue EXCEPT ![e] = FALSE]]_vars

\* C6 witness: the client has dropped an event that was enqueued, before
\* it fired.
DroppedBeforeFiring ==
    /\ lastOp = "drop"
    /\ \E e \in Events :
          /\ order[e] = counter /\ counter > 0
          /\ ~ InQ(e) /\ destroyed[e] = 0
          /\ \A i \in 1..Len(log) : log[i].order # order[e]

\* C7 (re-post preserves lastTime): a probe notified after a handler that
\* re-posted its own event one tick later reads lastTime = the time of the
\* firing; the time field is then one tick later, the order is fresh, and as
\* long as that posting stands the event is enqueued for that time and fires
\* again at it.
RepostPreservesLastTime ==
    \A i \in 1..Len(log) :
        doitOf[log[i].ev].kind = "repost" =>
            /\ log[i].probed
            /\ log[i].lastTime = log[i].gt
            /\ log[i].time = log[i].gt + doitOf[log[i].ev].delta
            /\ log[i].newOrder > log[i].order
            /\ (InQ(log[i].ev) /\ order[log[i].ev] = log[i].newOrder) =>
                   time[log[i].ev] = log[i].time
            /\ \A j \in 1..Len(log) :
                   (j > i /\ log[j].ev = log[i].ev
                          /\ log[j].order = log[i].newOrder) =>
                       (log[j].gt = log[i].time /\ log[j].lastTime = log[i].time)

\* C7 witness (S3): A has fired at time 1, its handler has posted it for
\* time 2, the probe has read lastTime = 1, and A is pending for time 2.
S3Probed ==
    /\ Len(log) = 1
    /\ log[1].ev = "A" /\ doitOf["A"].kind = "repost"
    /\ log[1].probed /\ log[1].lastTime = 1 /\ log[1].time = 2
    /\ eventQueue = << "A" >> /\ time["A"] = 2 /\ lastTime["A"] = 1

\* the current posting of e has fired
FiredPosting(e) ==
    \E i \in 1..Len(log) : log[i].ev = e /\ log[i].order = order[e]

\* C8 (disposable ownership): no event is deleted twice, no deleted event
\* is in the queue, and a disposable event whose posting has fired has been
\* deleted.
DisposableOwnership ==
    \A e \in Events :
        /\ destroyed[e] <= 1
        /\ destroyed[e] > 0 => ~ InQ(e)
        /\ (disposable[e] /\ FiredPosting(e)) => destroyed[e] = 1

SimStepContract ==
    [][lastOp' = "sim_step" =>
        IF eventQueue = << >>
        THEN exc' = "NoMoreEvents" /\ ProgramUnchanged
        ELSE LET h == Head(eventQueue)
             IN  /\ exc' # "NoMoreEvents"
                 /\ Len(log') = Len(log) + 1
                 /\ SubSeq(log', 1, Len(log)) = log
                 /\ log'[Len(log')].ev = h
                 /\ log'[Len(log')].gt = time[h]
                 /\ log'[Len(log')].order = order[h]
                 /\ globTime' = time[h]
                 /\ lastTime'[h] = time[h]
                 /\ exc' = "none" => ret' = time[h]
                 /\ Count(eventQueue', h) = 1 => order'[h] > order[h]
                 /\ \A x \in Events \ {h} :
                       Count(eventQueue, x) = 1 => Count(eventQueue', x) = 1
      ]_vars

\* C10 witness: sim_step has fired an event of time 1 and returned 1.
SimStepReturned ==
    /\ lastOp = "sim_step" /\ exc = "none"
    /\ ret = 1 /\ globTime = 1
    /\ Len(log) > 0 /\ log[Len(log)].gt = 1

\* the larger of two numbers
Max(a, b) == IF a >= b THEN a ELSE b

CallsOf(ops) == SelectSeq(calls, LAMBDA c : c.op \in ops)

\* the number of replicas the specification gives for run(length, nRuns)
ReplicasFor(n) == IF n >= 3 THEN n ELSE IF n = 2 THEN 3 ELSE 1

\* C12 (replica count): a call run(length, nRuns) that returns has executed
\* nRuns cycles initSingleRun / event loop / endSingleRun if nRuns >= 3, three
\* if nRuns = 2 and one if nRuns <= 1; numRuns and actRuns equal that number.
ReplicaCount ==
    (lastOp = "run" /\ exc = "none") =>
        LET want == ReplicasFor(args[2])
            cyc == CallsOf({"BaseStat::newRun", "BaseStat::endRun",
                            "clearEventQueue"})
        IN  /\ numRuns = want
            /\ actRuns = want
            /\ Len(cyc) = 3 * want
            /\ \A r \in 0..(want - 1) :
                  /\ cyc[3 * r + 1].op = "BaseStat::newRun"
                  /\ cyc[3 * r + 2].op = "BaseStat::endRun"
                  /\ cyc[3 * r + 3].op = "clearEventQueue"
                  /\ cyc[3 * r + 1].at <= cyc[3 * r + 2].at
                  /\ cyc[3 * r + 2].at = cyc[3 * r + 3].at

\* C12 witness: run(100, 2) has returned after three replicas, in each of
\* which events fired.
RanThreeForTwo ==
    /\ lastOp = "run" /\ exc = "none"
    /\ args = << 100, 2 >>
    /\ actRuns = 3
    /\ LET cyc == CallsOf({"BaseStat::newRun", "BaseStat::endRun"})
       IN  /\ Len(cyc) = 6
           /\ \A r \in 0..2 : cyc[2 * r + 1].at < cyc[2 * r + 2].at

\* C13 (batch flags): a call run(length, nRuns) that returns has called
\* initRuns iff nRuns is neither 0 nor -1 and endSim iff nRuns >= 0, and for
\* nRuns < -1 the statistics were initialised for |nRuns| replicas.
BatchFlags ==
    (lastOp = "run" /\ exc = "none") =>
        LET n == args[2]
            inits == CallsOf({"BaseStat::init"})
            ends == CallsOf({"BaseStat::endSim"})
        IN  /\ Len(inits) = (IF n \notin {0, -1} THEN 1 ELSE 0)
            /\ Len(ends) = (IF n >= 0 THEN 1 ELSE 0)
            /\ (n < -1 /\ Len(inits) = 1) => inits[1].n = -n

\* C14 (S6): after run(100, 3) on the event that first fires at 0 and posts
\* itself 7 ticks later, each of the three replicas has exactly 15 firings,
\* at the times 0, 7, ..., 98.
S6Firings ==
    (/\ lastOp = "run" /\ exc = "none"
     /\ args = << 100, 3 >>
     /\ doitOf["A"].kind = "repost" /\ doitOf["A"].delta = 7) =>
        LET cyc == CallsOf({"BaseStat::newRun", "BaseStat::endRun"})
        IN  /\ Len(cyc) = 6
            /\ \A r \in 0..2 :
                  LET first == cyc[2 * r + 1].at
                      last == cyc[2 * r + 2].at
                  IN  /\ last - first = 15
                      /\ \A k \in 1..(last - first) :
                            /\ log[first + k].gt = 7 * (k - 1)
                            /\ log[first + k].gt <= 98

\* C15 (entity multicast and bracketing): the calls a run makes, those of
\* BaseStat::init and endSim apart, are per replica: newRun() of every
\* registered entity in registration order, with the clock at 0 and before
\* any event of the replica has fired; BaseStat::newRun; then, with all the
\* firings of the replica made, endRun() of every registered entity in
\* registration order, BaseStat::endRun, and the clearing of the queue.  A
\* run that returns has made numRuns such rounds.
HookBracketing ==
    lastOp = "run" =>
        LET T == SelectSeq(calls, LAMBDA c :
                     c.op \notin {"BaseStat::init", "BaseStat::endSim"})
            k == Len(entities)
            blk == 2 * k + 3
        IN  /\ exc = "none" => Len(T) = numRuns * blk
            /\ \A i \in 1..Len(T) :
                  LET p == ((i - 1) % blk) + 1
                      b == i - p
                  IN  /\ p <= k =>
                             /\ T[i].op = "newRun"
                             /\ T[i].who = entities[p]
                             /\ T[i].gt = 0
                             /\ T[i].at = T[b + 1].at
                             /\ b > 0 => T[i].at = T[b].at
                      /\ p = k + 1 =>
                             /\ T[i].op = "BaseStat::newRun"
                             /\ T[i].at = T[b + 1].at
                      /\ (k + 1 < p /\ p <= 2 * k + 1) =>
                             /\ T[i].op = "endRun"
                             /\ T[i].who = entities[p - k - 1]
                             /\ T[i].at = T[b + k + 2].at
                             /\ T[i].at >= T[b + k + 1].at
                      /\ p = 2 * k + 2 =>
                             /\ T[i].op = "BaseStat::endRun"
                             /\ T[i].at = T[i - 1].at
                      /\ p = 2 * k + 3 =>
                             /\ T[i].op = "clearEventQueue"
                             /\ T[i].at = T[i - 1].at

\* C15 witness: run has returned after three replicas on a system of two
\* entities; each replica fired events between the newRun() and the endRun()
\* calls, and the queue was not empty when endRun() of the first entity was
\* called.
ThreeBracketedReplicas ==
    /\ lastOp = "run" /\ exc = "none"
    /\ entities = << "E1", "E2" >>
    /\ numRuns = 3
    /\ LET n == CallsOf({"newRun"})
           e == CallsOf({"endRun"})
       IN  /\ Len(n) = 6 /\ Len(e) = 6
           /\ \A r \in 0..2 :
                 /\ n[2 * r + 1].who = "E1" /\ n[2 * r + 2].who = "E2"
                 /\ e[2 * r + 1].who = "E1" /\ e[2 * r + 2].who = "E2"
                 /\ n[2 * r + 2].at < e[2 * r + 1].at
                 /\ e[2 * r + 1].qlen > 0

\* the generator g after n calls of sample()
RECURSIVE Samples(_, _)
Samples(g, n) == IF n = 0 THEN g ELSE Samples(sample(g), n - 1)

\* the numbers the first n calls of sample() of the generator g return
Outputs(g, n) == [i \in 1..n |-> Samples(g, i).xn]

\* C16 (reproducibility): the numbers a generator has returned since it was
\* seeded are those a newly constructed generator of that seed returns, so
\* two generators of the same seed agree on every output both have made; and
\* init(s), in whatever state, gives the state of a new generator of seed s.
Reproducibility ==
    /\ \A g \in Gens :
          /\ out[g] = Outputs(RandomGen(gen[g].seed), Len(out[g]))
          /\ gen[g] = Samples(RandomGen(gen[g].seed), Len(out[g]))
          /\ \A sd \in Seeds : init(gen[g], sd) = RandomGen(sd)
    /\ \A g1, g2 \in Gens :
          gen[g1].seed = gen[g2].seed =>
              \A i \in 1..Len(out[g1]) :
                  i <= Len(out[g2]) => out[g1][i] = out[g2][i]

\* C16 witness: both generators were seeded again, with the same seed, not
\* the one of their construction; they have returned the same three numbers
\* since.
SameSeedSameNumbers ==
    /\ gen["own"].seed = gen["std"].seed
    /\ gen["own"].seed # StdSeed
    /\ Len(out["own"]) = 3 /\ Len(out["std"]) = 3
    /\ out["own"] = out["std"]
    /\ out["own"][1] # out["own"][2]

\* the number of firings lo..hi of the log whose handler draws a number
Draws(lo, hi) ==
    Cardinality({ k \in lo..hi : doitOf[log[k].ev].draws > 0 })

\* the state of a generator that was in state x, n calls of sample() later
After(x, n) == Samples([seed |-> StdSeed, xn |-> x], n).xn

\* C17 (the generator survives runs): the seed of the standard generator
\* is the one of its construction and its state has advanced by one sample
\* for each firing of a handler that draws a number, and by nothing else,
\* whatever the client called; between two successive calls a run makes the
\* state advances by the draws of the firings between them, so a replica
\* starts with the state the replica before ended with.
RngSurvivesRuns ==
    /\ gen["std"].seed = StdSeed
    /\ gen["own"] = RandomGen(StdSeed)
    /\ gen["std"].xn = After(StdSeed, Draws(1, Len(log)))
    /\ \A i \in 1..Len(calls) :
          /\ i < Len(calls) =>
                /\ calls[i].at <= calls[i + 1].at
                /\ calls[i + 1].xn =
                       After(calls[i].xn, Draws(calls[i].at + 1, calls[i + 1].at))
          /\ (i < Len(calls) /\ calls[i].op = "clearEventQueue"
                             /\ calls[i + 1].op = "newRun") =>
                calls[i + 1].xn = calls[i].xn
          /\ i = Len(calls) =>
                gen["std"].xn =
                    After(calls[i].xn, Draws(calls[i].at + 1, Len(log)))

\* C17 witness: a run of three replicas has returned; the second replica
\* started with the state the first one had advanced the generator to, and
\* advanced it further.
StateCarriedOver ==
    /\ lastOp = "run" /\ exc = "none" /\ numRuns = 3
    /\ \E i \in 1..(Len(calls) - 1) :
          /\ calls[i].op = "clearEventQueue"
          /\ calls[i + 1].op = "newRun"
          /\ calls[i + 1].xn = calls[i].xn
          /\ calls[i].xn # StdSeed
          /\ gen["std"].xn # calls[i].xn

\* (a + b) mod M and (k * x) mod M for a, b, x in 0..M-1, by additions that
\* stay below 2^31
AddMod(a, b) == IF a >= M - b THEN a - (M - b) ELSE a + b

RECURSIVE MulMod(_, _)
MulMod(k, x) ==
    IF k = 0 THEN 0
    ELSE IF k % 2 = 1 THEN AddMod(x, MulMod(k - 1, x))
    ELSE LET h == MulMod(k \div 2, x) IN AddMod(h, h)

\* the states next to x, and the one opposite to it
Near(x) == {x - 1, x, x + 1, M - x}

\* RandomGen scenario S4
S4 == << 16807, 282475249, 1622650073, 984943658, 1144108930 >>

\* C18 (Park-Miller): from every state x in 1..M-1, sample() moves to and
\* returns (16807 * x) mod M, which lies in 1..M-1, and leaves the seed; the
\* quotient, the remainder and the two products it computes are within
\* 0..2^31-1 and their difference within -(2^31-1)..2^31-1; from seed 1
\* the first five numbers are those of S4.
ParkMiller ==
    /\ \A g \in Gens :
          \A x \in Near(gen[g].xn) :
              (1 <= x /\ x <= M - 1) =>
                  LET g0 == [gen[g] EXCEPT !.xn = x]
                      xq == x \div Q
                      xr == x % Q
                      y == sample(g0).xn
                  IN  /\ y = MulMod(A, x)
                      /\ 1 <= y /\ y <= M - 1
                      /\ sample(g0).seed = g0.seed
                      /\ 0 <= xr /\ xr <= M \div A
                      /\ 0 <= xq /\ xq <= M \div R
                      /\ A * xr - R * xq >= 0 - M
                      /\ A * xr - R * xq <= M
    /\ \A g \in Gens :
          gen[g].seed = 1 =>
              \A i \in 1..Len(out[g]) : i <= Len(S4) => out[g][i] = S4[i]
    /\ lastOp = "sample" =>
          \E g \in Gens :
              Len(out[g]) > 0 /\ ret = gen[g].xn /\ ret = out[g][Len(out[g])]

\* C18 witness: the standard generator, of seed 1, has returned the five
\* numbers of S4, and the other one, seeded with Q, a number that sample()
\* had to bring back from a negative difference.
S4Sampled ==
    /\ gen["std"].seed = 1 /\ out["std"] = S4
    /\ gen["own"].seed = Q /\ Len(out["own"]) = 1
    /\ out["own"][1] = M - R

\* C19 (clearEventQueue): in every reachable state a call of
\* clearEventQueue leaves the queue empty and the clock at 0, destroys
\* every event that was enqueued and disposable, once, and no other event,
\* clears the flag of every event, and changes nothing else; and after a
\* call by the client the queue is empty, the clock 0 and no event destroyed
\* twice.
ClearEventQueueContract ==
    /\ LET s == clearEventQueue(St)
       IN  /\ s.exc = "none"
           /\ s.eventQueue = << >>
           /\ s.globTime = 0
           /\ \A e \in Events :
                 /\ ~ s.isInQueue[e]
                 /\ (InQ(e) /\ disposable[e]) =>
                        (destroyed[e] = 0 /\ s.destroyed[e] = 1)
                 /\ (InQ(e) /\ ~ disposable[e]) =>
                        (destroyed[e] = 0 /\ s.destroyed[e] = 0)
                 /\ ~ InQ(e) => s.destroyed[e] = destroyed[e]
           /\ Same([s EXCEPT !.eventQueue = eventQueue, !.globTime = globTime,
                             !.isInQueue = isInQueue, !.destroyed = destroyed])
    /\ lastOp = "clearEventQueue" =>
          /\ exc = "none"
          /\ eventQueue = << >>
          /\ globTime = 0
          /\ \A e \in Events : ~ isInQueue[e] /\ destroyed[e] <= 1

\* C19 witness: the client has cleared a queue that held A, not disposable,
\* and B, disposable, before either fired: B is destroyed, A is not.
ClearedBoth ==
    /\ lastOp = "clearEventQueue"
    /\ log = << >> /\ counter = 2
    /\ order["A"] > 0 /\ order["B"] > 0
    /\ disposable["B"] /\ ~ disposable["A"]
    /\ destroyed["B"] = 1 /\ destroyed["A"] = 0
    /\ eventQueue = << >> /\ globTime = 0

\* C20 (exception recovery): when sim_step or run ends with an error other
\* than NoMoreEvents, the queue is empty and the clock is 0.
ExceptionRecovery ==
    (lastOp \in {"sim_step", "run"} /\ exc \notin {"none", "NoMoreEvents"}) =>
        (eventQueue = << >> /\ globTime = 0)

\* the replicas of the last run whose event loop ended on an empty queue:
\* the clock was below the length of the run when the loop was left
RanDry == { i \in 1..Len(calls) :
               /\ calls[i].op = "BaseStat::endRun"
               /\ calls[i].gt < args[1] }

\* C21 (NoMoreEvents is a normal termination in run): a call of run never
\* ends with NoMoreEvents; a replica whose queue runs empty before the clock
\* reaches length is closed by endSingleRun (hooks, statistics, clearing of
\* the queue) at the firing the loop stopped at, and the run goes on: it
\* returns with every replica made.
NoMoreEventsIsNormal ==
    lastOp = "run" =>
        /\ exc # "NoMoreEvents"
        /\ \A i \in RanDry :
              /\ calls[i].qlen = 0
              /\ i < Len(calls)
              /\ calls[i + 1].op = "clearEventQueue"
              /\ calls[i + 1].at = calls[i].at
        /\ RanDry # {} =>
              /\ exc = "none"
              /\ end
              /\ actRuns = ReplicasFor(args[2])
              /\ Len(CallsOf({"BaseStat::newRun"})) = ReplicasFor(args[2])
              /\ Len(CallsOf({"BaseStat::endRun"})) = ReplicasFor(args[2])
              /\ Len(CallsOf({"clearEventQueue"})) = ReplicasFor(args[2])

\* C21 witness: run(100, 3) has returned; in each of the three replicas one
\* event fired, at time 0, and the queue was empty after it.
ThreeDryReplicas ==
    /\ lastOp = "run" /\ exc = "none"
    /\ args = << 100, 3 >>
    /\ Cardinality(RanDry) = 3
    /\ LET cyc == CallsOf({"BaseStat::newRun", "BaseStat::endRun"})
       IN  \A r \in 0..2 : cyc[2 * r + 2].at = cyc[2 * r + 1].at + 1

\* the indices of the trace of calls at which op was called
At(op) == { i \in 1..Len(calls) : calls[i].op = op }

\* C22 (SchedInstr::onEnd call order): an onEnd() that completes has called,
\* once each and in this order, father.onInstrEnd(), kernel.disableThreshold(),
\* kernel.dispatch() and _threEvt.process(), all within the firing of _endEvt
\* and at its time; nothing was enqueued between the calls, and _threEvt is
\* enqueued by the last one.  Each firing of _endEvt runs onEnd() once.  A
\* firing of _threEvt, and so the notification of the probes attached to it,
\* comes after the call of dispatch() of the onEnd() that processed it.
OnEndOrder ==
    /\ Cardinality(At("onInstrEnd")) =
           Cardinality({ k \in 1..Len(log) : log[k].ev = endEvt })
    /\ \A i \in At("onInstrEnd") :
          /\ log[calls[i].at].ev = endEvt
          /\ log[calls[i].at].gt = calls[i].gt
          /\ kernel = "RTKernel" =>
                /\ i + 3 <= Len(calls)
                /\ calls[i + 1].op = "disableThreshold"
                /\ calls[i + 2].op = "dispatch"
                /\ calls[i + 3].op = "process"
                /\ \A d \in 1..3 :
                      /\ calls[i + d].at = calls[i].at
                      /\ calls[i + d].gt = calls[i].gt
                      /\ calls[i + d].qlen = calls[i].qlen
    /\ \A j \in At("disableThreshold") \cup At("dispatch") \cup At("process") :
          \E i \in At("onInstrEnd") : j \in (i + 1)..(i + 3)
    /\ \A k \in 1..Len(log) :
          log[k].ev = threEvt =>
              /\ \E i \in At("dispatch") :
                    /\ calls[i].at < k
                    /\ calls[i + 1].op = "process"
                    /\ log[k].order > log[calls[i].at].order
              /\ \A j \in At("Trace::probe") :
                    calls[j].at = k =>
                        \E i \in At("dispatch") : i < j /\ calls[i].at < k

\* C22 witness: the instruction was scheduled, _endEvt fired and onEnd() made
\* its four calls, then _threEvt fired; the trace attached to both events was
\* notified of each firing.
ThreEvtProbedAfterDispatch ==
    /\ kernel = "RTKernel"
    /\ Len(log) = 2
    /\ log[1].ev = endEvt /\ log[2].ev = threEvt
    /\ [i \in 1..Len(calls) |-> calls[i].op] =
           << "schedule", "onInstrEnd", "disableThreshold", "dispatch",
              "process", "Trace::probe", "Trace::probe" >>
    /\ calls[6].at = 1 /\ calls[7].at = 2

\* C23 (KernelMismatch): when the task has no kernel, or a kernel that is not
\* an RTKernel, a firing of _endEvt ends with the error of onEnd(): neither
\* disableThreshold(), dispatch() nor _threEvt.process() is called, and
\* _threEvt is not enqueued.
KernelMismatch ==
    [][ (/\ kernel # "RTKernel"
         /\ Len(log') > Len(log)) =>
            /\ log'[Len(log')].ev = endEvt
            /\ exc' = "BaseExc"
            /\ calls'[Len(calls')].op = "onInstrEnd"
            /\ calls'[Len(calls')].at = Len(log')
            /\ \A i \in 1..Len(calls') :
                  calls'[i].op \notin {"disableThreshold", "dispatch", "process"}
            /\ ~ isInQueue'[threEvt]
            /\ \A i \in 1..Len(eventQueue') : eventQueue'[i] # threEvt
            /\ counter' = counter ]_vars

\* C23 witness: the kernel of the task is not an RTKernel; _endEvt has fired
\* and the step ended with the error of onEnd().
OnEndFailed ==
    /\ kernel = "AbsKernel"
    /\ lastOp = "sim_step"
    /\ exc = "BaseExc"
    /\ Len(log) = 1 /\ log[1].ev = endEvt
    /\ calls[Len(calls)].op = "onInstrEnd"

\* C24 (lastTime bound): in every reachable state, those after initRuns,
\* initSingleRun, endSingleRun and clearEventQueue included, the lastTime of
\* every event is at most the clock.
LastTimeBound == \A e \in Events : lastTime[e] <= globTime

\* C25 (no pending event in the past): in every reachable state the time of
\* every enqueued event is at least the clock, whatever the client called.
NoPendingPast ==
    \A i \in 1..Len(eventQueue) : time[eventQueue[i]] >= globTime

\* C25 witness: run_to has returned with the clock advanced and an event
\* still enqueued, for a time after the clock.
PendingAfterRunTo ==
    /\ lastOp = "run_to" /\ exc = "none"
    /\ globTime > 0 /\ ret = globTime
    /\ eventQueue # << >>
    /\ time[Head(eventQueue)] > globTime

\* the operations of the trace of calls that are notifications of probes
ProbeOps == {"BaseStat::probe", "Particle::probe", "Trace::probe"}

\* the notifications e owes to its probes at each firing: the statistics,
\* then the particles, then the traces, each in the order of attachment
Owed(e) ==
    [i \in 1..Len(probes.stats[e]) |->
        << "BaseStat::probe", probes.stats[e][i] >>]
    \o [i \in 1..Len(probes.particles[e]) |->
           << "Particle::probe", probes.particles[e][i] >>]
    \o [i \in 1..Len(probes.traces[e]) |->
           << "Trace::probe", probes.traces[e][i] >>]

\* the notifications made during the k-th firing, in the order they were made
Notified(k) ==
    LET sel == SelectSeq(calls, LAMBDA c : c.op \in ProbeOps /\ c.at = k)
    IN  [i \in 1..Len(sel) |-> << sel[i].op, sel[i].who >>]

\* C26 (probe ordering): at every firing of an event each probe attached to
\* it is notified once, the statistics first, then the particles, then the
\* traces, each group in the order of attachment; the notifications follow
\* the calls the handler of that firing made and precede everything of the
\* next firing.
ProbeOrdering ==
    /\ \A k \in 1..Len(log) : Notified(k) = Owed(log[k].ev)
    /\ \A i, j \in 1..Len(calls) :
          i < j =>
              /\ calls[i].at <= calls[j].at
              /\ (calls[i].at = calls[j].at /\ calls[i].op \in ProbeOps) =>
                     calls[j].op \in ProbeOps \cup {"schedule"}

\* C26 witness: two statistics, attached in the order s2, s1, a particle and
\* a trace are attached to _endEvt, one statistic to _threEvt; _endEvt has
\* fired, its handler has made its calls and its four probes were notified,
\* then _threEvt has fired and its probe was notified.
AllProbesNotified ==
    /\ probes.stats[endEvt] = << "s2", "s1" >>
    /\ probes.particles[endEvt] = << "c1" >>
    /\ probes.traces[endEvt] = << "t1" >>
    /\ probes.stats[threEvt] = << "s1" >>
    /\ Len(log) = 2
    /\ log[1].ev = endEvt /\ log[2].ev = threEvt
    /\ [i \in 1..Len(calls) |-> calls[i].op] =
           << "schedule", "onInstrEnd", "disableThreshold", "dispatch",
              "process", "BaseStat::probe", "BaseStat::probe",
              "Particle::probe", "Trace::probe", "BaseStat::probe" >>

\* the numbers of parameters createInstance of class c is meant for
RightSizes(c) ==
    CASE c \in VarClasses  -> {Arity[c]}
      [] c = "SchedInstr"   -> {2}
      [] c = "PeriodicTask" -> 3..6

\* C27 (factory arity): a call of createInstance of any of the nine classes
\* with a wrong number of parameters ends with ParseExc and constructs no
\* object.
FactoryArity ==
    [][ (lastOp' = "createInstance" /\ args'[2] \notin RightSizes(args'[1])) =>
            (exc' = "ParseExc" /\ objects' = objects) ]_vars

\* C28 (default generator management): changeGenerator(g) makes g the
\* default and returns the default it replaces; restoreGenerator() makes the
\* library generator the default; a variable constructed without a generator
\* takes the default of that moment, one constructed with a generator takes
\* that one; no call changes the generator of a variable that exists, and
\* get() of a variable draws one sample from the generator of the variable
\* and from no other.
DefaultGenerator ==
    [][ /\ lastOp' = "changeGenerator" =>
              (pstdgen' = args'[1] /\ ret' = pstdgen)
        /\ lastOp' = "restoreGenerator" => pstdgen' = "std"
        /\ lastOp' = "new" =>
              /\ Len(objects') = Len(objects) + 1
              /\ objects'[Len(objects')].gen =
                     (IF args'[1] = "NULL" THEN pstdgen ELSE args'[1])
        /\ \A i \in 1..Len(objects) : objects'[i] = objects[i]
        /\ lastOp' = "get" =>
              \A g \in Gens :
                  IF g = objects[args'[1]].gen
                  THEN gen'[g] = sample(gen[g])
                  ELSE gen'[g] = gen[g]
        /\ lastOp' # "get" => gen' = gen ]_vars

\* C28 witness: a variable was constructed without a generator while the
\* generator of the client was the default; the default is the library
\* generator again; the variable has drawn a number, from the generator of
\* the client.
KeptItsGenerator ==
    /\ lastOp = "get"
    /\ pstdgen = "std"
    /\ objects # << >>
    /\ objects[args[1]].gen = "own"
    /\ Len(out["own"]) = 1 /\ Len(out["std"]) = 0
    /\ gen["own"] # RandomGen(StdSeed) /\ gen["std"] = RandomGen(StdSeed)

\* e has fired during the step
FiredInStep(e) ==
    \E k \in (Len(log) + 1)..Len(log') : log'[k].ev = e

\* the last call has enqueued e
Enqueued(e) == ~ isInQueue[e] /\ isInQueue'[e]

\* C29 (process restores priority): process() enqueues the event at the
\* current time with priority IMMEDIATE, and the event fires with that
\* priority; once it has fired its priority is the one of its constructor
\* again; no other call changes a priority, so a later post() enqueues the
\* event with its standard priority and the queue orders it by that one.
ProcessRestoresPriority ==
    [][ \A e \in Events :
          /\ (lastOp' = "process" /\ exc' = "none" /\ Enqueued(e)) =>
                /\ priority'[e] = IMMEDIATE_PRIORITY
                /\ time'[e] = globTime
          /\ FiredInStep(e) => priority'[e] = stdPriority[e]
          /\ (lastOp' # "process" /\ ~ FiredInStep(e)) =>
                priority'[e] = priority[e]
          /\ (lastOp' = "post" /\ exc' = "none" /\ Enqueued(e)
                               /\ priority[e] = stdPriority[e]) =>
                \A f \in Events \ {e} :
                    (isInQueue'[f] /\ time'[f] = time'[e]) =>
                        IF priority'[f] <= stdPriority[e]
                        THEN Pos(eventQueue', f) < Pos(eventQueue', e)
                        ELSE Pos(eventQueue', e) < Pos(eventQueue', f) ]_vars

\* C29 witness: A was processed and has fired with priority IMMEDIATE; it
\* was then posted again and is enqueued with the priority of its
\* constructor.
PostedAgainWithStdPriority ==
    /\ lastOp = "post" /\ exc = "none"
    /\ Len(log) = 1
    /\ log[1].ev = "A" /\ log[1].prio = IMMEDIATE_PRIORITY
    /\ stdPriority["A"] = DEFAULT_PRIORITY
    /\ isInQueue["A"] /\ order["A"] = 2
    /\ priority["A"] = DEFAULT_PRIORITY

\* the duration of the instruction of scenario S5
Duration == 5

\* C30 (SchedInstr end-event timing): every onEnd() runs Duration ticks after
\* a call of schedule(), the clock being t at the call and t + Duration when
\* onEnd() runs (S5: scheduled at 0, onEnd() at 5).
EndEventTiming ==
    \A j \in At("onInstrEnd") :
        \E i \in At("schedule") :
            /\ i < j
            /\ calls[j].gt = calls[i].gt + Duration

\* C31 (threshold event in the same tick): a pending _threEvt has priority
\* IMMEDIATE and the time of the firing of _endEvt whose onEnd() processed
\* it, and it is the first of the queue, before _endEvt when dispatch() has
\* scheduled the instruction again for the same tick; _threEvt fires right
\* after that firing of _endEvt, at the same time and with the same lastTime
\* seen by a probe, before any other event.
ThreEvtSameTick ==
    /\ isInQueue[threEvt] =>
          /\ Head(eventQueue) = threEvt
          /\ priority[threEvt] = IMMEDIATE_PRIORITY
          /\ time[threEvt] = lastTime[endEvt]
          /\ log # << >> /\ log[Len(log)].ev = endEvt
          /\ time[threEvt] = log[Len(log)].gt
          /\ \A f \in Events \ {threEvt} : isInQueue[f] => time[f] >= time[threEvt]
    /\ \A k \in 1..Len(log) :
          log[k].ev = threEvt =>
              /\ k > 1
              /\ log[k - 1].ev = endEvt
              /\ log[k].gt = log[k - 1].gt
              /\ log[k].lastTime = log[k - 1].lastTime
              /\ log[k].lastTime = log[k].gt
              /\ log[k].prio = IMMEDIATE_PRIORITY

\* C31 witness: at time 1 onEnd() ran under a kernel whose dispatch()
\* scheduled the instruction again; _threEvt, enqueued after _endEvt, has
\* fired at time 1 while _endEvt, of default priority, is still pending for
\* time 1.
ThreEvtFiredBeforeRescheduled ==
    /\ kernel = "RTKernelAgain"
    /\ Len(log) = 2
    /\ log[1].ev = endEvt /\ log[2].ev = threEvt
    /\ log[1].gt = 1 /\ log[2].gt = 1
    /\ isInQueue[endEvt] /\ time[endEvt] = 1
    /\ priority[endEvt] > IMMEDIATE_PRIORITY
    /\ order[endEvt] < log[2].order
    /\ exc = "none"

\* the number of calls of onEnd() so far, and after the step
OnEnds == Cardinality(At("onInstrEnd"))

OnEndsAfter ==
    Cardinality({ i \in 1..Len(calls') : calls'[i].op = "onInstrEnd" })

SchedulesAfter ==
    Cardinality({ i \in 1..Len(calls') : calls'[i].op = "schedule" })

\* C32 (schedule / deschedule state machine): deschedule() takes _endEvt out
\* of the queue and changes nothing else, nothing at all when _endEvt is not
\* enqueued; endRun() leaves both events out of the queue; schedule() on an
\* instruction whose _endEvt is not enqueued succeeds and enqueues it once,
\* for the current time; _endEvt gets into the queue by a call of schedule()
\* only, and onEnd() runs in a step only if _endEvt was enqueued before it,
\* so not between a deschedule() and the next schedule().
ScheduleStateMachine ==
    [][ /\ lastOp' = "deschedule" =>
              /\ exc' = "none"
              /\ ~ isInQueue'[endEvt]
              /\ eventQueue' = Without(eventQueue, endEvt)
              /\ isInQueue'[threEvt] = isInQueue[threEvt]
              /\ UNCHANGED << time, lastTime, priority, order, counter,
                              globTime, log, calls >>
              /\ ~ isInQueue[endEvt] => ProgramUnchanged
        /\ lastOp' = "endRun" =>
              /\ exc' = "none"
              /\ \A e \in {endEvt, threEvt} : ~ isInQueue'[e]
              /\ eventQueue' = << >>
              /\ UNCHANGED << globTime, log, calls >>
        /\ (lastOp' = "schedule" /\ ~ isInQueue[endEvt]) =>
              /\ exc' = "none"
              /\ isInQueue'[endEvt]
              /\ Count(eventQueue', endEvt) = 1
              /\ time'[endEvt] = globTime
              /\ globTime' = globTime
        /\ Enqueued(endEvt) =>
              SchedulesAfter > Cardinality(At("schedule"))
        /\ OnEndsAfter > OnEnds =>
              /\ isInQueue[endEvt]
              /\ lastOp' \in {"sim_step", "run_to"} ]_vars

\* C32 witness: _endEvt has fired once and _threEvt is pending; the
\* instruction was scheduled again, descheduled, which left _threEvt in the
\* queue, and scheduled a third time: the call succeeded and _endEvt is in
\* the queue once, behind _threEvt.
ScheduledAfterDeschedule ==
    /\ lastOp = "schedule" /\ exc = "none"
    /\ nCalls = 5
    /\ counter = 4
    /\ Len(log) = 1 /\ log[1].ev = endEvt
    /\ eventQueue = << threEvt, endEvt >>
    /\ order[threEvt] = 2 /\ order[endEvt] = 4
    /\ OnEnds = 1

\* C33 (PeriodicTask factory reads): a call of PeriodicTask::createInstance
\* with three strings or more reads only positions the vector has; with
\* exactly three strings it returns a task with the empty name and the queue
\* size 100 and has not read par[3]; the name is par[3] when there is a
\* fourth string.
PeriodicTaskReads ==
    [][ (/\ lastOp' = "createInstance"
         /\ args'[1] = "PeriodicTask"
         /\ args'[2] >= 3) =>
            /\ \A i \in 1..Len(calls') : calls'[i].n < args'[2]
            /\ exc' = "none"
            /\ Len(objects') = Len(objects) + 1
            /\ objects'[Len(objects')].class = "PeriodicTask"
            /\ objects'[Len(objects')].name =
                   (IF args'[2] >= 4 THEN ParName ELSE "")
            /\ args'[2] = 3 => objects'[Len(objects')].qs = 100 ]_vars

\* the calls a handler makes
HandlerOps == {"onInstrEnd", "disableThreshold", "dispatch", "process"}

\* C34 (clock seen by handlers and probes): every call a handler makes and
\* every notification of a probe, during the firing of an event inside
\* sim_step, finds the clock equal to the lastTime of that event, which is
\* the time the event was enqueued for; so getTime() minus a time stored
\* before is measured against the time of the firing.
ClockSeenInFiring ==
    \A i \in 1..Len(calls) :
        calls[i].op \in HandlerOps \cup ProbeOps =>
            LET k == calls[i].at
            IN  /\ k >= 1
                /\ calls[i].gt = log[k].gt
                /\ log[k].probed => calls[i].gt = log[k].lastTime
                /\ k = Len(log) => calls[i].gt = lastTime[log[k].ev]

\* C34 witness: _endEvt was posted at time 0 for time 1 and has fired; the
\* calls of its handler and the notification of its statistic found the
\* clock at 1, the lastTime of the event.
ProbeSawFiringTime ==
    /\ lastOp = "sim_step" /\ exc = "none"
    /\ Len(log) = 1 /\ log[1].ev = endEvt
    /\ lastTime[endEvt] = 1
    /\ \E i, j, h \in 1..Len(calls) :
          /\ calls[i].op = "BaseStat::newRun" /\ calls[i].gt = 0
          /\ calls[h].op = "dispatch" /\ calls[h].gt = 1
          /\ calls[j].op = "BaseStat::probe" /\ calls[j].gt = 1
          /\ i < h /\ h < j
          /\ calls[j].gt - calls[i].gt = 1

\* the calls of endRun() of the first registered entity: the first call a
\* replica makes when its event loop has ended
LoopExits ==
    SelectSeq(calls, LAMBDA c : c.op = "endRun" /\ c.who = entities[1])

\* C35 (horizon overshoot of run): in each replica of a run(length, n) that
\* returns, every firing but the last is at a time before length, so at most
\* one event of time >= length fires and none fires after it; the event loop
\* ends before such a firing only with the queue empty, so every event of a
\* time before length has fired; with length = 0 no event fires.
HorizonOvershoot ==
    (lastOp = "run" /\ exc = "none") =>
        LET cyc == CallsOf({"BaseStat::newRun", "BaseStat::endRun"})
            len == args[1]
        IN  /\ Len(cyc) = 2 * numRuns
            /\ Len(LoopExits) = numRuns
            /\ \A r \in 0..(numRuns - 1) :
                  LET first == cyc[2 * r + 1].at
                      last == cyc[2 * r + 2].at
                  IN  /\ first <= last
                      /\ LoopExits[r + 1].at = last
                      /\ \A k \in (first + 1)..(last - 1) : log[k].gt < len
                      /\ Cardinality({ k \in (first + 1)..last :
                                          log[k].gt >= len }) <= 1
                      /\ len = 0 => last = first
                      /\ (len > 0 /\ (last = first \/ log[last].gt < len)) =>
                             LoopExits[r + 1].qlen = 0

\* C35 witness: run(3, 3) has returned on the event that posts itself 7 ticks
\* later; in each replica the event fired at 0 and at 7, past the length,
\* and the loop ended with the event pending for 14.
FiredPastLength ==
    /\ lastOp = "run" /\ exc = "none"
    /\ args = << 3, 3 >>
    /\ doitOf["A"].kind = "repost" /\ doitOf["A"].delta = 7
    /\ nCalls = 1
    /\ Len(log) = 6
    /\ \A r \in 0..2 : log[2 * r + 1].gt = 0 /\ log[2 * r + 2].gt = 7
    /\ \A r \in 1..3 : LoopExits[r].qlen = 1 /\ LoopExits[r].at = 2 * r

\* the calls of newRun() of the first registered entity: the first call a
\* replica makes after the clock is reset
ReplicaStarts ==
    SelectSeq(calls, LAMBDA c : c.op = "newRun" /\ c.who = entities[1])

\* C36 (state after run): when run(length, nRuns) has returned, whatever
\* nRuns, the queue is empty and no event is flagged as enqueued, the clock
\* is 0, end is true and actRuns = numRuns; every replica after the first
\* has started with the clock at 0 and the queue empty, so no event posted
\* in one replica is left for the next.
StateAfterRun ==
    (lastOp = "run" /\ exc = "none") =>
        /\ eventQueue = << >>
        /\ \A e \in Events : ~ isInQueue[e]
        /\ globTime = 0
        /\ end = TRUE
        /\ actRuns = numRuns /\ numRuns >= 1
        /\ Len(ReplicaStarts) = numRuns
        /\ \A r \in 2..numRuns :
              ReplicaStarts[r].qlen = 0 /\ ReplicaStarts[r].gt = 0

\* C36 witness: run(100, 4) has returned after four replicas on the event
\* that posts itself 7 ticks later; in each replica the last firing was at
\* 105 and the event was pending when the queue was cleared; the queue is
\* empty and the clock is 0.
FourCleanReplicas ==
    /\ lastOp = "run" /\ exc = "none"
    /\ args = << 100, 4 >>
    /\ doitOf["A"].kind = "repost" /\ doitOf["A"].delta = 7
    /\ Len(ReplicaStarts) = 4
    /\ Len(SelectSeq(calls, LAMBDA c : c.op = "clearEventQueue"
                                        /\ c.qlen = 1 /\ c.gt = 105)) = 4
    /\ log[Len(log)].gt = 105
    /\ eventQueue = << >> /\ globTime = 0 /\ end /\ actRuns = 4

\* C37 (partial effect on kernel mismatch): a step that ends with the
\* error of onEnd() has called father.onInstrEnd() once, during the firing
\* of _endEvt that failed, and made no other call: the task has been told
\* that its instruction ended, no threshold was lowered and no dispatch was
\* made; _endEvt has been consumed by the firing.
PartialEffect ==
    [][ exc' = "BaseExc" =>
            /\ kernel \notin RTKernels
            /\ lastOp' \in {"sim_step", "run_to"}
            /\ OnEndsAfter = OnEnds + 1
            /\ Len(calls') = Len(calls) + 1
            /\ calls'[Len(calls')].op = "onInstrEnd"
            /\ calls'[Len(calls')].who = "father"
            /\ Len(log') = Len(log) + 1
            /\ calls'[Len(calls')].at = Len(log')
            /\ log'[Len(log')].ev = endEvt
            /\ isInQueue[endEvt] /\ ~ isInQueue'[endEvt]
            /\ lastTime'[endEvt] = time[endEvt]
            /\ priority' = priority /\ counter' = counter ]_vars

\* C37 witness: the task has no kernel; the instruction was scheduled and
\* the step that fired _endEvt ended with the error, after the one call of
\* father.onInstrEnd().
TaskAdvancedBeforeFailure ==
    /\ kernel = "NULL"
    /\ lastOp = "sim_step" /\ exc = "BaseExc"
    /\ [i \in 1..Len(calls) |-> calls[i].op] = << "schedule", "onInstrEnd" >>
    /\ calls[2].at = 1
    /\ eventQueue = << >>

====
